---- MODULE Spec2Model ----
(***************************************************************************)
(* CRASS, a two-pass COMPASS cross-assembler for the CDC 6000 series.      *)
(*                                                                         *)
(* The module models the location/position counter machinery of            *)
(* assembler_state.py, the line processing of pass1_processing.py and      *)
(* pass2_processing.py, the pass driver and block layout of pass_logic.py, *)
(* the symbol and literal tables of symbol_table.py and the binary word    *)
(* buffer of output_generator.py.                                          *)
(*                                                                         *)
(* A 60-bit word is kept as a sign and the set of the bit positions that   *)
(* are set in its magnitude, so that shifts and ORs past bit 59 stay       *)
(* visible (Python integers are unbounded).                                *)
(***************************************************************************)
EXTENDS Integers, Sequences, FiniteSets, TLC

\* ------------------------------------------------------------------ bounds
\* Longest source program explored by Spec.
MaxLines == 3

\* Longest source program explored by SpecLayout.
MaxLayoutLines == 4

\* Longest source program explored by SpecControl.
MaxControlLines == 4

\* Longest source program explored by SpecRemote.
MaxRemoteLines == 5

\* Longest source program explored by SpecVfd.
MaxVfdLines == 2

\* Deepest nesting of remote block replay explored in Pass 2; a replay
\* that goes deeper never ends and runs into the recursion limit.
MaxHereDepth == 3

\* ------------------------------------------------------- program constants
\* Bits in a machine word (advance_lc: new_pc_val // 60).
WORD_BITS == 60

\* Width of a no-op parcel used to pad a flushed word.
NOOP_WIDTH == 15

\* Octal digits of a binary output line, f"{word:020o}".
OCTAL_DIGITS == 20

\* ------------------------------------------------------------ integer words
Max(a, b) == IF a >= b THEN a ELSE b

\* The bit positions set in one octal digit.
OctDigitBits(d) == {b \in 0..2 : (d \div (2^b)) % 2 = 1}

\* The magnitude bits of the number written with the octal digits ds.
FromOctal(ds) ==
    UNION {{3 * (Len(ds) - i) + b : b \in OctDigitBits(ds[i])} : i \in 1..Len(ds)}

\* A non-negative Python int given by its octal digits.
OctWord(ds) == [neg |-> FALSE, mag |-> FromOctal(ds)]

\* A small integer (|n| < 2^18) as a word.
IntWord(n) ==
    LET m == IF n < 0 THEN 0 - n ELSE n
    IN  [neg |-> n < 0, mag |-> {b \in 0..17 : (m \div (2^b)) % 2 = 1}]

ZeroWord == [neg |-> FALSE, mag |-> {}]

\* w << k
ShiftLeft(w, k) == [neg |-> w.neg, mag |-> {b + k : b \in w.mag}]

\* a | b, for the non-negative operands the word buffer ORs together.
BitOr(a, b) == [neg |-> a.neg \/ b.neg, mag |-> a.mag \cup b.mag]

\* The lowest set bit of a non-empty magnitude.
LowBit(mag) == CHOOSE b \in mag : \A c \in mag : b <= c

\* value & ((1 << width) - 1), two's complement for a negative value.
MaskWord(w, width) ==
    IF ~w.neg \/ w.mag = {}
    THEN [neg |-> FALSE, mag |-> {b \in w.mag : b < width}]
    ELSE LET l == LowBit(w.mag)
         IN  [neg |-> FALSE,
              mag |-> {b \in 0..(width - 1) : b = l \/ (b > l /\ b \notin w.mag)}]

\* Number of characters of f"{word:020o}" (without the newline).
OctalLineLength(w) ==
    LET top    == IF w.mag = {} THEN 0
                  ELSE (CHOOSE b \in w.mag : \A c \in w.mag : c <= b) + 1
        digits == Max(1, (top + 2) \div 3)
        sign   == IF w.neg /\ w.mag # {} THEN 1 ELSE 0
    IN  Max(OCTAL_DIGITS, sign + digits)

\* f"{word:020o}" consists of octal digits only: it has no minus sign.
OctalLineIsDigits(w) == ~w.neg \/ w.mag = {}

\* 0 <= word <= 2^60 - 1
InWordRange(w) == (~w.neg \/ w.mag = {}) /\ \A b \in w.mag : b < WORD_BITS

\* NOOP_15_BIT = 0o46000
NOOP_15_BIT == OctWord(<<4, 6, 0, 0, 0>>)

\* --------------------------------------------------------- OutputGenerator
\* buffer_address = -1 means "no word open".
NO_ADDRESS == -1

OutputGeneratorInit ==
    [buffered_word |-> ZeroWord, bits_in_buffer |-> 0,
     buffer_address |-> NO_ADDRESS, binary_file |-> <<>>]

\* _write_buffered_word: one line of the binary file, then the buffer is reset.
\* Each written line is kept with the address the buffer carried.
WriteBufferedWord(og) ==
    LET shifted == IF og.bits_in_buffer # WORD_BITS /\ og.bits_in_buffer > 0
                   THEN ShiftLeft(og.buffered_word, WORD_BITS - og.bits_in_buffer)
                   ELSE og.buffered_word
        written == IF og.buffer_address # NO_ADDRESS /\ og.bits_in_buffer > 0
                   THEN Append(og.binary_file,
                               [address |-> og.buffer_address, word |-> shifted])
                   ELSE og.binary_file
    IN  [buffered_word |-> ZeroWord, bits_in_buffer |-> 0,
         buffer_address |-> NO_ADDRESS, binary_file |-> written]

\* The while loop of flush_binary_word: one no-op parcel per 15 remaining bits.
RECURSIVE PadNoops(_, _)
PadNoops(word, remaining) ==
    IF remaining >= NOOP_WIDTH
    THEN PadNoops(BitOr(word, ShiftLeft(NOOP_15_BIT, remaining - NOOP_WIDTH)),
                  remaining - NOOP_WIDTH)
    ELSE IF remaining > 0 THEN ShiftLeft(word, remaining) ELSE word

\* flush_binary_word(pad_with_noops)
FlushBinaryWord(og, pad_with_noops) ==
    IF og.bits_in_buffer > 0
    THEN LET padded ==
               IF pad_with_noops /\ og.bits_in_buffer < WORD_BITS
               THEN PadNoops(og.buffered_word, WORD_BITS - og.bits_in_buffer)
               ELSE IF og.bits_in_buffer < WORD_BITS
                    THEN ShiftLeft(og.buffered_word, WORD_BITS - og.bits_in_buffer)
                    ELSE og.buffered_word
         IN  WriteBufferedWord([og EXCEPT !.buffered_word = padded,
                                          !.bits_in_buffer = WORD_BITS])
    ELSE og

\* add_parcel_to_binary_word reports an error when the parcel does not fit.
ParcelOverflows(og, address, width) ==
    /\ og.bits_in_buffer > 0
    /\ address = og.buffer_address
    /\ og.bits_in_buffer + width > WORD_BITS

\* add_parcel_to_binary_word(address, value, width)
AddParcelToBinaryWord(og, address, value, width) ==
    LET og1 == IF og.bits_in_buffer > 0 /\ address # og.buffer_address
               THEN FlushBinaryWord(og, TRUE) ELSE og
        og2 == IF og1.bits_in_buffer = 0
               THEN [og1 EXCEPT !.buffer_address = address, !.buffered_word = ZeroWord]
               ELSE og1
        og3 == IF og2.bits_in_buffer + width > WORD_BITS
               THEN [FlushBinaryWord(og2, TRUE) EXCEPT !.buffer_address = address,
                                                       !.buffered_word = ZeroWord,
                                                       !.bits_in_buffer = 0]
               ELSE og2
        shift == WORD_BITS - og3.bits_in_buffer - width
        og4 == [og3 EXCEPT
                  !.buffered_word = BitOr(@, ShiftLeft(MaskWord(value, width), shift)),
                  !.bits_in_buffer = @ + width]
    IN  IF og4.bits_in_buffer = WORD_BITS THEN WriteBufferedWord(og4) ELSE og4

\* add_full_word_to_binary(address, word_value): the value is stored unmasked.
AddFullWordToBinary(og, address, word_value) ==
    LET og1 == IF og.bits_in_buffer > 0 THEN FlushBinaryWord(og, TRUE) ELSE og
    IN  WriteBufferedWord([og1 EXCEPT !.buffer_address = address,
                                      !.buffered_word = word_value,
                                      !.bits_in_buffer = WORD_BITS])

\* ---------------------------------------------------------- AssemblerState
ABS_BLOCK == "*ABS*"

\* None, for pre_loc_block_name, is_defining and current_remote_block_name.
NONE == ""

\* AssemblerState.__init__ followed by set_pass(1).
AssemblerStateInit ==
    [location_counter |-> 0, position_counter |-> 0, current_block |-> ABS_BLOCK,
     pass_number |-> 1, conditional_stack |-> <<TRUE>>,
     end_statement_processed |-> FALSE, skip_count |-> 0, is_defining |-> NONE,
     current_remote_block_name |-> NONE,
     block_lcs |-> [b \in {ABS_BLOCK} |-> 0], block_order |-> <<>>,
     lc_is_absolute_due_to_loc |-> FALSE, pre_loc_block_name |-> NONE,
     deferred_force_upper_pending |-> FALSE, current_line_number |-> 0]

\* The increment applied to every block of the table instead of one.
AddToEveryBlock(block_lcs, block, words) ==
    [b \in DOMAIN block_lcs \cup {block} |->
        (IF b \in DOMAIN block_lcs THEN block_lcs[b] ELSE 0) + words]

\* block_lcs[block] += words, creating the entry when it is missing.
AddToBlock(block_lcs, block, words) ==
    [b \in DOMAIN block_lcs \cup {block} |->
        (IF b \in DOMAIN block_lcs THEN block_lcs[b] ELSE 0)
        + (IF b = block THEN words ELSE 0)]

\* The block whose size advance_lc and force_upper increment.
BlockToIncrementSize(st) ==
    IF st.lc_is_absolute_due_to_loc /\ st.pre_loc_block_name # NONE
    THEN st.pre_loc_block_name ELSE st.current_block

\* advance_lc(bits)
AdvanceLc(st, bits) ==
    IF bits <= 0 THEN st
    ELSE LET new_pc_val == st.position_counter + bits
             words      == new_pc_val \div WORD_BITS
         IN  [st EXCEPT
                !.location_counter = @ + words,
                !.position_counter = new_pc_val % WORD_BITS,
                !.block_lcs = IF st.pass_number = 1 /\ words > 0
                              THEN AddToBlock(@, BlockToIncrementSize(st), words)
                              ELSE @]

\* The value force_upper returns: the bits it skips.
NoopBitsNeeded(st) ==
    IF st.position_counter # 0 THEN WORD_BITS - st.position_counter ELSE 0

\* force_upper()
ForceUpper(st) ==
    IF st.position_counter # 0
    THEN [st EXCEPT
            !.location_counter = @ + 1,
            !.position_counter = 0,
            !.block_lcs = IF st.pass_number = 1
                          THEN AddToBlock(@, BlockToIncrementSize(st), 1) ELSE @]
    ELSE st

\* set_location_counter(new_lc, new_pc, is_loc_directive)
SetLocationCounter(st, new_lc, new_pc, is_loc_directive) ==
    LET st1 == [st EXCEPT
                  !.location_counter = new_lc,
                  !.position_counter =
                      IF new_pc < 0 \/ new_pc >= WORD_BITS THEN 0 ELSE new_pc]
    IN  IF is_loc_directive
        THEN [st1 EXCEPT !.lc_is_absolute_due_to_loc = TRUE,
                         !.pre_loc_block_name = st.current_block,
                         !.deferred_force_upper_pending = FALSE]
        ELSE st1

\* switch_block reports an internal error in Pass 2 when the block has no base.
SwitchBlockFails(st, new_block_name, bases) ==
    st.pass_number = 2 /\ new_block_name \notin DOMAIN bases

\* switch_block without the statement that ends the LOC range.
SwitchBlockKeepingLoc(st, new_block_name, bases) ==
    IF /\ st.pass_number = 1
       /\ new_block_name = st.current_block
       /\ ~st.lc_is_absolute_due_to_loc
    THEN st
    ELSE [st EXCEPT !.deferred_force_upper_pending = FALSE,
                    !.block_lcs = IF st.pass_number = 1
                                  THEN AddToBlock(@, new_block_name, 0) ELSE @,
                    !.location_counter =
                        IF st.pass_number = 2 /\ new_block_name \in DOMAIN bases
                        THEN bases[new_block_name] ELSE 0,
                    !.position_counter = 0,
                    !.current_block = new_block_name]

\* switch_block(new_block_name); bases is assembler.block_base_addresses.
SwitchBlock(st, new_block_name, bases) ==
    IF /\ st.pass_number = 1
       /\ new_block_name = st.current_block
       /\ ~st.lc_is_absolute_due_to_loc
    THEN st
    ELSE LET st1 == [st EXCEPT !.lc_is_absolute_due_to_loc = FALSE,
                               !.pre_loc_block_name = NONE,
                               !.deferred_force_upper_pending = FALSE]
         IN  IF st.pass_number = 1
             THEN [st1 EXCEPT
                     !.block_lcs = AddToBlock(@, new_block_name, 0),
                     !.block_order =
                         IF /\ new_block_name \notin DOMAIN st.block_lcs
                            /\ new_block_name # ABS_BLOCK
                            /\ \A i \in 1..Len(@) : @[i] # new_block_name
                         THEN Append(@, new_block_name) ELSE @,
                     !.location_counter = 0,
                     !.position_counter = 0,
                     !.current_block = new_block_name]
             ELSE [st1 EXCEPT
                     !.location_counter =
                         IF new_block_name \in DOMAIN bases
                         THEN bases[new_block_name] ELSE 0,
                     !.position_counter = 0,
                     !.current_block = new_block_name]

\* reset_for_pass2(); literal_size is symbol_table.get_literal_block_size().
ResetForPass2(st, literal_size) ==
    [st EXCEPT !.location_counter = literal_size,
               !.position_counter = 0,
               !.conditional_stack = <<TRUE>>,
               !.end_statement_processed = FALSE,
               !.current_block = ABS_BLOCK,
               !.skip_count = 0,
               !.is_defining = NONE,
               !.current_remote_block_name = NONE,
               !.lc_is_absolute_due_to_loc = FALSE,
               !.pre_loc_block_name = NONE,
               !.deferred_force_upper_pending = FALSE,
               !.pass_number = 2]

\* ------------------------------------------------------------ source lines
\* A parsed source line (lexer.parse_line): label field, opcode field and the
\* operand, kept as the name, the field width and the value it denotes.
Line(label, opcode, operand, width, value) ==
    [label |-> label, opcode |-> opcode, operand |-> operand, operand2 |-> "",
     width |-> width, value |-> value, is_comment_line |-> FALSE]

\* A conditional directive: its operand field split at the comma, as
\* evaluate_condition splits it.
CondLine(opcode, operand, operand2) ==
    [Line("", opcode, operand, 0, 0) EXCEPT !.operand2 = operand2]

\* A line with '*' in column 1.
CommentLine ==
    [label |-> "", opcode |-> "", operand |-> "", operand2 |-> "",
     width |-> 0, value |-> 0, is_comment_line |-> TRUE]

BlankLine == Line("", "", "", 0, 0)

NEGATING_LABEL == "-"

IsEquStar(ln) == ln.opcode = "EQU" /\ ln.operand = "*"

\* mnemonic.startswith("IF"), for the IF directives of the model.
IsIfDirective(ln) == ln.opcode \in {"IFEQ", "IFNE"}

\* is_conditional_directive of the two line processors.
IsConditionalDirective(ln) == IsIfDirective(ln) \/ ln.opcode \in {"ELSE", "ENDIF"}

\* DEFERRED_FORCE_MNEMONICS of pass1_processing.py and pass2_processing.py.
DEFERRED_FORCE_MNEMONICS == {"JP", "RJ", "PS", "XJ"}

\* The mnemonics of the instruction map the model assembles.
InstructionMnemonics == {"NO", "SA1", "RJ"}

\* instruction_table.is_instruction
IsInstruction(mnemonic) == mnemonic \in InstructionMnemonics

\* instruction_table.is_pseudo_op, for the pseudo-ops the model assembles.
IsPseudoOp(mnemonic) ==
    mnemonic \in {"IDENT", "END", "EQU", "USE", "ABS", "REL", "LOC", "DATA", "CON",
                  "BSS", "BSSZ", "VFD", "LIT", "MICRO", "SKIP", "SET"}

\* instruction_table.get_base_mnemonic: the register digit is dropped.
GetBaseMnemonic(mnemonic) ==
    IF mnemonic = "SA1" THEN "SA" ELSE mnemonic

\* Width in bits of the encoding chosen for `NO`, `SA1 K`, `RJ K`.
InstructionWidth(mnemonic) == IF mnemonic = "NO" THEN NOOP_WIDTH ELSE 30

\* The parcel assemble_instruction builds for the line.
InstructionParcel(ln) ==
    IF ln.opcode = "NO" THEN NOOP_15_BIT
    ELSE IF ln.opcode = "SA1"
         THEN BitOr(OctWord(<<5, 1, 1, 0, 0, 0, 0, 0, 0, 0>>), IntWord(ln.value))
         ELSE BitOr(OctWord(<<0, 1, 0, 0, 0, 0, 0, 0, 0, 0>>), IntWord(ln.value))

\* The 60-bit display-code word the IDENT handler of Pass 2 encodes: the
\* one-letter program name, `T` (display code 24) or `Q` (display code 21),
\* left-justified, blank filled (display code 55).
IdentWord(prog_name) ==
    OctWord(<<2, IF prog_name = "Q" THEN 1 ELSE 4,
              5, 5, 5, 5, 5, 5, 5, 5, 5, 5, 5, 5, 5, 5, 5, 5, 5, 5>>)

\* ------------------------------------------------------------- SymbolTable
SymbolTableInit ==
    [symbols |-> [n \in {} |-> 0], program_name_attributes |-> NONE,
     literal_list |-> <<>>, literal_addr_map |-> [v \in {} |-> 0]]

\* The attributes a definition passes to SymbolTable.define.
Attrs(type, block) ==
    [type |-> type, block |-> block, redefinable |-> FALSE,
     program_name |-> FALSE, equ_star |-> FALSE, defined_by_loc |-> FALSE]

\* SymbolTable.define refuses the definition and reports an error.
DefineRefused(tab, name, value, attrs) ==
    /\ name \in DOMAIN tab.symbols
    /\ LET old == tab.symbols[name]
       IN  \/ old.attrs.program_name
           \/ /\ old.attrs.defined_by_loc
              /\ ~(attrs.defined_by_loc /\ old.value = value)
           \/ /\ ~old.attrs.defined_by_loc
              /\ ~old.attrs.redefinable
              /\ ~(/\ old.value = value
                   /\ old.attrs.type = attrs.type
                   /\ old.attrs.block = attrs.block)
           \/ /\ ~old.attrs.defined_by_loc
              /\ old.attrs.redefinable
              /\ ~attrs.redefinable

\* The entry kept when an identical redefinition only updates the attributes.
BenignUpdate(tab, name, value, attrs) ==
    /\ name \in DOMAIN tab.symbols
    /\ LET old == tab.symbols[name]
       IN  /\ ~old.attrs.program_name
           /\ \/ old.attrs.defined_by_loc
              \/ ~old.attrs.redefinable

\* The program-name conflict reported after the entry has been stored.
ProgramNameConflict(tab, name, attrs) ==
    /\ attrs.program_name
    /\ tab.program_name_attributes # NONE
    /\ tab.program_name_attributes # name

\* SymbolTable.define(name, value, line_num, attrs): the table afterwards.
Define(tab, name, value, line_num, attrs) ==
    IF DefineRefused(tab, name, value, attrs) THEN tab
    ELSE IF BenignUpdate(tab, name, value, attrs)
    THEN [tab EXCEPT !.symbols[name].attrs =
            [attrs EXCEPT !.program_name = @ \/ tab.symbols[name].attrs.program_name,
                          !.equ_star = @ \/ tab.symbols[name].attrs.equ_star,
                          !.defined_by_loc = @ \/ tab.symbols[name].attrs.defined_by_loc]]
    ELSE [tab EXCEPT
            !.symbols = [n \in DOMAIN @ \cup {name} |->
                           IF n = name
                           THEN [value |-> value, line_num |-> line_num, attrs |-> attrs]
                           ELSE @[n]],
            !.program_name_attributes =
                IF attrs.program_name /\ ~ProgramNameConflict(tab, name, attrs)
                THEN name ELSE @]

\* SymbolTable.define returns False.
DefineFails(tab, name, value, attrs) ==
    \/ DefineRefused(tab, name, value, attrs)
    \/ /\ ~BenignUpdate(tab, name, value, attrs)
       /\ ProgramNameConflict(tab, name, attrs)

\* A literal table that appends every value it is given.
AddLiteralAlways(tab, value) ==
    [tab EXCEPT !.literal_list = Append(@, value)]

\* add_literal(value): literal_list keeps the distinct values in first-use order.
AddLiteral(tab, value) ==
    IF \E i \in 1..Len(tab.literal_list) : tab.literal_list[i] = value
    THEN tab
    ELSE [tab EXCEPT !.literal_list = Append(@, value)]

\* assign_literal_addresses(start_address)
AssignLiteralAddresses(tab, start_address) ==
    [tab EXCEPT !.literal_addr_map =
        [v \in {tab.literal_list[i] : i \in 1..Len(tab.literal_list)} |->
            start_address
            + (CHOOSE i \in 1..Len(tab.literal_list) : tab.literal_list[i] = v) - 1]]

\* get_literal_block_size()
GetLiteralBlockSize(tab) == Len(tab.literal_list)

\* ------------------------------------------------- line processing context
\* What one line is observed to do; kept per line and per pass.
\*   step      what the deferred-force step at the top of the line did:
\*             "bypassed" (the line returned before it), "none" (nothing was
\*             pending), "negated", "forced" or "equ_star"
\*   step_*    the counters and the flag right after that step, which is
\*             before any label is defined and before any content
\*   label_*   the symbol the line defines (Pass 1) or lists (EQU * in Pass 2)
\*   content_* the counters where the content of the line starts
\*   pre_switch_lc  the location counter a USE/ABS/REL/LOC line leaves behind
\*             in the block it switches away from
\*   define_*  the call of symbol_table.define the line makes: its value and
\*             attributes, the entry the name had before, whether the call
\*             returned False and whether it left the entry as it was
\*   switch_*  the call of state.switch_block the line makes: its target and
\*             the two flags right after the call returned
\*   cond_*    the conditional directive the line is: the stack the handler
\*             found and the one the line leaves, whether the condition or
\*             one of its operands was evaluated, and the condition's value
\*   skipped_by_conditional  the line was skipped under a false stack top
\*   lc_calls  the calls of advance_lc and force_upper that consumed words
\*             in Pass 1, in order: the words, the state they found and the
\*             block sizes before and after
NewObservation(st) ==
    [processed |-> TRUE,
     entry_lc |-> st.location_counter, entry_pc |-> st.position_counter,
     entry_block |-> st.current_block,
     entry_loc_abs |-> st.lc_is_absolute_due_to_loc,
     entry_pending |-> st.deferred_force_upper_pending,
     step |-> "bypassed",
     step_lc |-> st.location_counter, step_pc |-> st.position_counter,
     step_pending |-> st.deferred_force_upper_pending,
     label_defined |-> FALSE, label_value |-> 0, label_block |-> NONE,
     label_absolute |-> FALSE,
     content_lc |-> NO_ADDRESS, content_pc |-> NO_ADDRESS,
     first_parcel_address |-> NO_ADDRESS, emitted_bits |-> 0, skipped_bits |-> 0,
     pre_switch_lc |-> NO_ADDRESS, pass1_width_estimate |-> 0,
     define_called |-> FALSE, define_existed |-> FALSE,
     define_old_value |-> 0, define_old_attrs |-> Attrs("absolute", ABS_BLOCK),
     define_value |-> 0, define_attrs |-> Attrs("absolute", ABS_BLOCK),
     define_failed |-> FALSE, define_unchanged |-> FALSE,
     switch_called |-> FALSE, switch_target |-> NONE,
     switch_loc_abs |-> FALSE, switch_pending |-> FALSE,
     lc_calls |-> <<>>,
     cond_handled |-> FALSE, cond_stack_before |-> <<>>,
     cond_stack_after |-> st.conditional_stack,
     cond_evaluated |-> FALSE, cond_result |-> FALSE,
     skipped_by_conditional |-> FALSE,
     returned |-> TRUE, raised |-> FALSE,
     parcels |-> <<>>,
     here_lines |-> <<>>, here_processed |-> 0,
     exit_lc |-> st.location_counter, exit_pc |-> st.position_counter,
     exit_pending |-> st.deferred_force_upper_pending]

\* error_reporter.add_error(message, line_num, code): the error is appended
\* to the list whatever the list holds. The entry keeps the line number, and
\* the pass that was running so that the properties can tell the passes
\* apart.
AddError(c, line_num) ==
    [c EXCEPT !.has_errors = TRUE,
              !.errors = Append(@, [line_num |-> line_num,
                                    pass_number |-> c.st.pass_number])]

\* error_reporter.has_error_on_line(line_num): line 0 never enters
\* error_lines.
HasErrorOnLine(c, line_num) ==
    line_num # 0 /\ \E i \in 1..Len(c.errors) : c.errors[i].line_num = line_num

\* `if not error_reporter.has_error_on_line(line_num): add_error(...)`
AddErrorOnce(c, line_num) ==
    IF HasErrorOnLine(c, line_num) THEN c ELSE AddError(c, line_num)

\* An error a line handler reports for the line it is on, unconditionally.
Fail(c) == AddError(c, c.st.current_line_number)

\* An error a line handler reports unless the line already has one.
FailOnce(c) == AddErrorOnce(c, c.st.current_line_number)

\* `return False` of process_line_pass_1: the line is reported as failed to
\* whoever called it.
ReturnFalse(c) == [c EXCEPT !.ob.returned = FALSE]

\* The driver of a pass moves to the line (pass_logic.py, top of the loop).
AtLine(c, line_num) == [c EXCEPT !.st.current_line_number = line_num]

\* The record of one advance_lc or force_upper call: kept when the call is
\* made in Pass 1 and moved the location counter.
LcCall(lc_calls, before, after) ==
    IF before.pass_number = 1 /\ after.location_counter # before.location_counter
    THEN Append(lc_calls,
                [words |-> after.location_counter - before.location_counter,
                 loc_abs |-> before.lc_is_absolute_due_to_loc,
                 pre_loc_block_name |-> before.pre_loc_block_name,
                 current_block |-> before.current_block,
                 sizes_before |-> before.block_lcs,
                 sizes_after |-> after.block_lcs])
    ELSE lc_calls

\* handle_force_upper(state, output_gen, error_reporter, line_num): Pass 2
\* callers pass the output generator, Pass 1 callers pass None.
HandleForceUpper(c) ==
    LET forced == c.st.position_counter # 0
    IN  [c EXCEPT
           !.og = IF forced /\ c.st.pass_number = 2
                  THEN FlushBinaryWord(@, TRUE) ELSE @,
           !.st = [(IF forced THEN ForceUpper(@) ELSE @)
                      EXCEPT !.deferred_force_upper_pending = FALSE],
           !.ob.skipped_bits = @ + NoopBitsNeeded(c.st),
           !.ob.lc_calls = IF forced THEN LcCall(@, c.st, ForceUpper(c.st)) ELSE @]

\* state.advance_lc(bits) from a line handler.
Advance(c, bits) ==
    [c EXCEPT !.st = AdvanceLc(@, bits),
              !.ob.lc_calls = LcCall(@, c.st, AdvanceLc(c.st, bits))]

\* state.location_counter = lc; state.position_counter = pc
RestoreCounters(c, lc, pc) ==
    [c EXCEPT !.st.location_counter = lc, !.st.position_counter = pc]

\* The block and type a label defined at the location counter receives.
LabelBlockContext(st) == BlockToIncrementSize(st)

LabelType(st) ==
    IF st.lc_is_absolute_due_to_loc \/ LabelBlockContext(st) = ABS_BLOCK
    THEN "absolute" ELSE "relocatable"

\* state.switch_block(new_block_name) as a line handler calls it.
CallSwitchBlock(c, new_block_name) ==
    LET st == SwitchBlock(c.st, new_block_name, c.bases)
        c1 == IF SwitchBlockFails(c.st, new_block_name, c.bases) THEN Fail(c) ELSE c
    IN  [c1 EXCEPT
           !.st = st,
           !.ob.switch_called = TRUE,
           !.ob.switch_target = new_block_name,
           !.ob.switch_loc_abs = st.lc_is_absolute_due_to_loc,
           !.ob.switch_pending = st.deferred_force_upper_pending]

\* symbol_table.define(name, value, line_num, attrs) as a line handler calls
\* it: the table afterwards, and the call as the line's observation keeps it.
CallDefine(c, name, value, line_num, attrs) ==
    LET existed == name \in DOMAIN c.tab.symbols
        tab == Define(c.tab, name, value, line_num, attrs)
    IN  [c EXCEPT
           !.tab = tab,
           !.ob.define_called = TRUE,
           !.ob.define_existed = existed,
           !.ob.define_old_value = IF existed THEN c.tab.symbols[name].value ELSE @,
           !.ob.define_old_attrs = IF existed THEN c.tab.symbols[name].attrs ELSE @,
           !.ob.define_value = value,
           !.ob.define_attrs = attrs,
           !.ob.define_failed = DefineFails(c.tab, name, value, attrs),
           !.ob.define_unchanged =
               existed /\ tab.symbols[name] = c.tab.symbols[name]]

\* symbol_table.define from a line handler; a refused definition is an error.
DefineSymbol(c, name, value, line_num, attrs) ==
    IF DefineFails(c.tab, name, value, attrs)
    THEN AddErrorOnce(CallDefine(c, name, value, line_num, attrs), line_num)
    ELSE [CallDefine(c, name, value, line_num, attrs) EXCEPT
                   !.ob.label_defined = TRUE,
                   !.ob.label_value = value,
                   !.ob.label_block = attrs.block,
                   !.ob.label_absolute = (attrs.type = "absolute")]

\* "Handle Deferred Force from PREVIOUS line", the same in both passes.
DeferredForceStep(c, ln) ==
    LET c1 == IF ~c.st.deferred_force_upper_pending
              THEN [c EXCEPT !.ob.step = "none"]
              ELSE IF ln.label = NEGATING_LABEL
              THEN [c EXCEPT !.st.deferred_force_upper_pending = FALSE,
                             !.ob.step = "negated"]
              ELSE IF ~IsEquStar(ln)
              THEN [HandleForceUpper(c) EXCEPT !.ob.step = "forced"]
              ELSE [c EXCEPT !.ob.step = "equ_star"]
    IN  [c1 EXCEPT !.ob.step_lc = c1.st.location_counter,
                   !.ob.step_pc = c1.st.position_counter,
                   !.ob.step_pending = c1.st.deferred_force_upper_pending]

\* The pre-alignment test of an instruction of the given width.
ForceBeforeInstr(mnemonic, width, pc) ==
    IF mnemonic \in {"PS", "XJ"} THEN pc \notin {0, 30}
    ELSE IF width = 30 /\ pc \notin {0, 30} THEN TRUE
    ELSE IF width = WORD_BITS /\ pc # 0 THEN TRUE
    ELSE width > 0 /\ pc # 0 /\ pc + width > WORD_BITS

\* calculate_pseudo_op_size for the one-operand forms of the data pseudo-ops.
CalculatePseudoOpSize(ln) ==
    IF ln.opcode \in {"DATA", "CON"} THEN WORD_BITS
    ELSE IF ln.opcode \in {"BSS", "BSSZ"} THEN ln.value * WORD_BITS
    ELSE IF ln.opcode = "VFD" THEN ln.width
    ELSE 0

\* ------------------------------------------------------------- expressions
\* The operands of the model that name a symbol (SYM_REGEX); every other
\* operand is a numeric constant.
SYMBOL_NAMES == {"A", "B", "E", "Q", "T"}

IsSymbolName(expr) == expr \in SYMBOL_NAMES

\* int(num_part, base) for the constants of the conditional directives.
DecimalValue == ("0" :> 0) @@ ("1" :> 1) @@ ("2" :> 2)

\* symbol_table.lookup finds an entry: the symbol or the program name.
LookupFinds(tab, name) ==
    \/ name \in DOMAIN tab.symbols
    \/ tab.program_name_attributes # NONE /\ name = tab.program_name_attributes

\* The attributes of the entry lookup returns.
LookupAttrs(tab, name) ==
    IF name \in DOMAIN tab.symbols THEN tab.symbols[name].attrs
    ELSE [Attrs("absolute", ABS_BLOCK) EXCEPT !.program_name = TRUE]

\* The value of the entry lookup returns.
LookupValue(tab, name) ==
    IF name \in DOMAIN tab.symbols THEN tab.symbols[name].value ELSE 0

\* In Pass 2 a relocatable symbol is evaluated with the base of its block.
NeedsBlockBase(c, expr) ==
    /\ c.st.pass_number = 2
    /\ LookupAttrs(c.tab, expr).type = "relocatable"
    /\ LookupAttrs(c.tab, expr).block # ABS_BLOCK

\* evaluate_expression raises ExpressionError: an undefined symbol, or in
\* Pass 2 a symbol of a block without a base address.
ExpressionRaises(c, expr) ==
    /\ IsSymbolName(expr)
    /\ \/ ~LookupFinds(c.tab, expr)
       \/ NeedsBlockBase(c, expr) /\ LookupAttrs(c.tab, expr).block \notin DOMAIN c.bases

\* The side effect of evaluate_expression: symbol_table.lookup reports an
\* undefined symbol unless the line already has an error.
EvaluateExpression(c, expr, line_num) ==
    IF IsSymbolName(expr) /\ ~LookupFinds(c.tab, expr)
    THEN AddErrorOnce(c, line_num) ELSE c

\* The value evaluate_expression returns; number is the value of the
\* operand when it is a numeric constant.
ExpressionValue(c, expr, number) ==
    IF ~IsSymbolName(expr) THEN number
    ELSE IF NeedsBlockBase(c, expr)
    THEN LookupValue(c.tab, expr) + c.bases[LookupAttrs(c.tab, expr).block]
    ELSE LookupValue(c.tab, expr)

\* The type evaluate_expression returns.
ExpressionType(c, expr) ==
    IF ~IsSymbolName(expr) \/ c.st.pass_number = 2 THEN "absolute"
    ELSE LookupAttrs(c.tab, expr).type

\* ------------------------------------------------- conditional assembly
\* The value of an operand of a conditional directive.
ConditionOperand(c, expr) ==
    ExpressionValue(c, expr, IF expr \in DOMAIN DecimalValue
                             THEN DecimalValue[expr] ELSE 0)

\* evaluate_condition catches an ExpressionError: IFEQ and IFNE need two
\* operands, and each is evaluated in turn.
ConditionRaises(c, ln) ==
    \/ ln.operand2 = ""
    \/ ExpressionRaises(c, ln.operand)
    \/ ExpressionRaises(c, ln.operand2)

\* What evaluate_condition returns for IFEQ and IFNE.
ConditionResult(c, ln) ==
    /\ ~ConditionRaises(c, ln)
    /\ LET same == /\ ConditionOperand(c, ln.operand) = ConditionOperand(c, ln.operand2)
                   /\ ExpressionType(c, ln.operand) = ExpressionType(c, ln.operand2)
       IN  IF ln.opcode = "IFEQ" THEN same ELSE ~same

\* The side effect of evaluate_condition: the error of a failed evaluation
\* is reported unless the line already has one, by lookup or by the except
\* clause.
EvaluateCondition(c, ln, line_num) ==
    IF ConditionRaises(c, ln) THEN AddErrorOnce(c, line_num) ELSE c

\* The state an ELSE gives the top of the stack.
ElseBranchStateIgnoringOuter(outer_active, last_if_true_branch_state) ==
    ~last_if_true_branch_state

ElseBranchState(outer_active, last_if_true_branch_state) ==
    outer_active /\ ~last_if_true_branch_state

\* The last element of the conditional stack.
StackTop(st) == st.conditional_stack[Len(st.conditional_stack)]

\* ELSE or ENDIF without an open IF: the handler reports an error.
ConditionalDirectiveFails(c, ln) ==
    ln.opcode \in {"ELSE", "ENDIF"} /\ Len(c.st.conditional_stack) <= 1

\* The conditional block of handle_pseudo_op_pass_1 and of
\* handle_pseudo_op_pass_2: the passes differ in the guard of the error.
ConditionalDirective(c, ln, line_num) ==
    LET stack == c.st.conditional_stack
        depth == Len(stack)
        currently_active == stack[depth]
        c1 == [c EXCEPT !.ob.cond_handled = TRUE,
                        !.ob.cond_stack_before = stack]
    IN  IF IsIfDirective(ln)
        THEN [(IF currently_active THEN EvaluateCondition(c1, ln, line_num) ELSE c1)
                 EXCEPT !.st.conditional_stack =
                            Append(stack, currently_active /\ ConditionResult(c, ln)),
                        !.ob.cond_evaluated = currently_active,
                        !.ob.cond_result = currently_active /\ ConditionResult(c, ln)]
        ELSE IF depth <= 1
        THEN IF c.st.pass_number = 1 THEN AddError(c1, line_num)
             ELSE AddErrorOnce(c1, line_num)
        ELSE IF ln.opcode = "ELSE"
        THEN [c1 EXCEPT !.st.conditional_stack =
                            Append(SubSeq(stack, 1, depth - 1),
                                   ElseBranchState(stack[depth - 1], stack[depth]))]
        ELSE [c1 EXCEPT !.st.conditional_stack = SubSeq(stack, 1, depth - 1)]

\* The listing of an IF directive in process_line_pass_2: the first operand
\* is evaluated for the value column, whatever the stack holds.
ListIfDirectivePass2(c, ln, line_num) ==
    IF IsIfDirective(ln)
    THEN [EvaluateExpression(c, ln.operand, line_num)
             EXCEPT !.ob.cond_evaluated = TRUE]
    ELSE c

\* ------------------------------------------------------------------ Pass 1
\* handle_pseudo_op_pass_1 for USE, ABS, REL and LOC.
BlockPseudoOpPass1(c, ln, line_num) ==
    IF ln.opcode = "USE" /\ ln.operand = "" THEN Fail(c)
    ELSE LET c1 == IF c.st.position_counter # 0 THEN HandleForceUpper(c) ELSE c
             before == [c1 EXCEPT !.ob.pre_switch_lc = c1.st.location_counter]
         IN  IF ln.opcode = "USE"
             THEN CallSwitchBlock(before, ln.operand)
             ELSE IF ln.opcode = "ABS"
             THEN CallSwitchBlock(before, ABS_BLOCK)
             ELSE IF ln.opcode = "REL"
             THEN CallSwitchBlock(before, IF ln.operand = "" THEN "*REL*"
                                          ELSE ln.operand)
             ELSE LET c2 == [before EXCEPT
                               !.st = SetLocationCounter(@, ln.value, 0, TRUE)]
                  IN  IF ln.label # ""
                      THEN DefineSymbol(c2, ln.label, ln.value, line_num,
                               [Attrs("absolute", ABS_BLOCK)
                                   EXCEPT !.defined_by_loc = TRUE])
                      ELSE c2

\* handle_pseudo_op_pass_1 for LIT after the alignment: the operand is
\* evaluated, and a failure is reported by the handler whatever lookup has
\* reported for the line.
LiteralPass1(c1, ln, line_num) ==
    IF ExpressionRaises(c1, ln.operand)
    THEN ReturnFalse(Fail(EvaluateExpression(c1, ln.operand, line_num)))
    ELSE IF ExpressionType(c1, ln.operand) # "absolute" THEN ReturnFalse(Fail(c1))
    ELSE [c1 EXCEPT !.tab = AddLiteral(@, ExpressionValue(c1, ln.operand, ln.value))]

\* handle_pseudo_op_pass_1 for SET: the label is defined, or redefined, as a
\* redefinable symbol with the value of the operand.
SetPass1(c, ln, line_num) ==
    IF ln.label = "" THEN ReturnFalse(Fail(c))
    ELSE IF ExpressionRaises(c, ln.operand)
    THEN ReturnFalse(Fail(EvaluateExpression(c, ln.operand, line_num)))
    ELSE LET val_type == IF c.st.lc_is_absolute_due_to_loc THEN "absolute"
                         ELSE ExpressionType(c, ln.operand)
             block_for_symbol == IF val_type = "absolute" THEN ABS_BLOCK
                                 ELSE LookupAttrs(c.tab, ln.operand).block
             attrs == [Attrs(val_type, block_for_symbol) EXCEPT !.redefinable = TRUE]
             value == ExpressionValue(c, ln.operand, ln.value)
         IN  IF DefineFails(c.tab, ln.label, value, attrs)
             THEN ReturnFalse(DefineSymbol(c, ln.label, value, line_num, attrs))
             ELSE DefineSymbol(c, ln.label, value, line_num, attrs)

\* handle_pseudo_op_pass_1 for the pseudo-ops that are not block control.
PseudoOpPass1(c, ln, line_num) ==
    IF ln.opcode = "IDENT"
    THEN IF ln.operand = "" THEN ReturnFalse(Fail(c))
         ELSE LET attrs == [Attrs("absolute", ABS_BLOCK) EXCEPT !.program_name = TRUE]
              IN  IF DefineFails(c.tab, ln.operand, 0, attrs)
                  THEN ReturnFalse(
                           AddErrorOnce(CallDefine(c, ln.operand, 0, line_num, attrs),
                                        line_num))
                  ELSE CallDefine(c, ln.operand, 0, line_num, attrs)
    ELSE IF ln.opcode \in {"DATA", "CON", "DIS", "BSS", "BSSZ"}
    THEN LET c1 == IF c.st.position_counter # 0 THEN HandleForceUpper(c) ELSE c
         IN  Advance(c1, CalculatePseudoOpSize(ln))
    ELSE IF ln.opcode = "VFD"
    THEN LET pc == c.st.position_counter
             c1 == IF ln.label = NEGATING_LABEL /\ pc % NOOP_WIDTH # 0
                   THEN Advance(c, NOOP_WIDTH - (pc % NOOP_WIDTH)) ELSE c
         IN  Advance(c1, CalculatePseudoOpSize(ln))
    ELSE IF ln.opcode = "LIT"
    THEN LiteralPass1(IF c.st.position_counter # 0 THEN HandleForceUpper(c) ELSE c,
                      ln, line_num)
    ELSE IF ln.opcode = "SET"
    THEN SetPass1(c, ln, line_num)
    ELSE IF ln.opcode = "SKIP"
    THEN IF ExpressionRaises(c, ln.operand)
         THEN ReturnFalse(Fail(EvaluateExpression(c, ln.operand, line_num)))
         ELSE IF \/ ExpressionType(c, ln.operand) # "absolute"
                 \/ ExpressionValue(c, ln.operand, ln.value) < 0
         THEN ReturnFalse(Fail(c))
         ELSE [c EXCEPT !.st.skip_count = ExpressionValue(c, ln.operand, ln.value)]
    ELSE IF ln.opcode = "END"
    THEN [c EXCEPT !.st.end_statement_processed = TRUE,
                   !.end_statement_label =
                       IF ln.label # "" THEN ln.label ELSE @]
    ELSE c

\* The `EQU *` branch of process_line_pass_1.
EquStarPass1(c, ln, line_num, lc_at_line_start, pc_at_line_start, was_pending) ==
    IF ln.label = "" THEN ReturnFalse(Fail(c))
    ELSE LET deferred == was_pending /\ ln.label # NEGATING_LABEL
             value == IF deferred THEN lc_at_line_start
                      ELSE c.st.location_counter
             attrs == [Attrs(LabelType(c.st), LabelBlockContext(c.st))
                          EXCEPT !.equ_star = TRUE]
             c1 == DefineSymbol(c, ln.label, value, line_num, attrs)
         IN  IF DefineFails(c.tab, ln.label, value, attrs) THEN ReturnFalse(c1)
             ELSE IF deferred
             THEN HandleForceUpper(
                      RestoreCounters(c1, lc_at_line_start, pc_at_line_start))
             ELSE c1

\* "RMT Block Collection" of process_line_pass_1: while a remote block is
\* open the line is stored, not assembled; RMT without a name, or END,
\* closes the block.
CollectRemoteLine(c, ln) ==
    IF ln.opcode = "RMT" /\ ln.operand = ""
    THEN [c EXCEPT !.st.current_remote_block_name = NONE]
    ELSE IF ln.opcode = "END"
    THEN [c EXCEPT !.remote_blocks[c.st.current_remote_block_name] = Append(@, ln),
                   !.st.current_remote_block_name = NONE]
    ELSE [c EXCEPT !.remote_blocks[c.st.current_remote_block_name] = Append(@, ln)]

\* The RMT statement of process_line_pass_1 outside a remote block: a name
\* opens the collection of the block of that name.
RemoteBlockStart(c, ln) ==
    IF ln.operand = "" THEN c
    ELSE IF c.st.current_remote_block_name # NONE THEN ReturnFalse(Fail(c))
    ELSE [c EXCEPT !.st.current_remote_block_name = ln.operand,
                   !.remote_blocks = (ln.operand :> <<>>) @@ @]

RECURSIVE ProcessLinePass1(_, _, _)
RECURSIVE ReplayRemoteLines(_, _, _, _, _)

\* The body of the loop over lines_to_expand after process_line_pass_1 has
\* returned for the k-th stored line: `return False` if it failed, else the
\* next stored line.
ReplayNext(r, lines_to_expand, k, line_num, here_ob) ==
    IF ~r.ob.returned
    THEN [r EXCEPT !.ob = [here_ob EXCEPT !.here_processed = k,
                                          !.returned = FALSE]]
    ELSE ReplayRemoteLines([r EXCEPT !.ob = [here_ob EXCEPT !.here_processed = k]],
                           lines_to_expand, k + 1, line_num, here_ob)

\* The loop of the HERE statement over the stored lines, from the k-th on:
\* each is handed to process_line_pass_1 under the line number of HERE.
ReplayRemoteLines(c, lines_to_expand, k, line_num, here_ob) ==
    IF k > Len(lines_to_expand) THEN c
    ELSE ReplayNext(ProcessLinePass1(c, lines_to_expand[k], line_num),
                    lines_to_expand, k, line_num, here_ob)

\* The replay of a remote block that HERE has taken out of remote_blocks.
StartReplay(c, line_num) ==
    ReplayRemoteLines(c, c.ob.here_lines, 1, line_num, c.ob)

\* The HERE statement of process_line_pass_1.
HereExpansion(c, ln, line_num) ==
    IF ln.operand = "" \/ ln.operand \notin DOMAIN c.remote_blocks
    THEN ReturnFalse(AddError(c, line_num))
    ELSE StartReplay(
             [c EXCEPT !.remote_blocks =
                           [name \in DOMAIN c.remote_blocks \ {ln.operand} |->
                               c.remote_blocks[name]],
                       !.ob.here_lines = c.remote_blocks[ln.operand]],
             line_num)

\* "Process Opcode" of process_line_pass_1 for a line with a mnemonic that
\* is not a block control pseudo-op.
OpcodePass1(c, ln, line_num) ==
    IF ln.opcode = "RMT" THEN RemoteBlockStart(c, ln)
    ELSE IF ln.opcode = "HERE" THEN HereExpansion(c, ln, line_num)
    ELSE IF ln.opcode = "MICRO"
    THEN IF ln.label = "" THEN ReturnFalse(Fail(c))
         ELSE [c EXCEPT !.micro_definitions = @ \cup {ln.label}]
    ELSE LET pass1_width_estimate ==
                 IF IsInstruction(ln.opcode) THEN InstructionWidth(ln.opcode) ELSE 0
             pc == c.st.position_counter
             c1 == IF pass1_width_estimate > 0
                   THEN IF ForceBeforeInstr(ln.opcode, pass1_width_estimate, pc)
                        THEN HandleForceUpper(c) ELSE c
                   ELSE IF /\ ln.opcode \in {"DATA", "CON", "DIS", "BSS", "BSSZ", "LIT"}
                           /\ pc # 0 /\ ln.opcode \notin {"VFD", "DIS"}
                        THEN HandleForceUpper(c) ELSE c
             c2 == [c1 EXCEPT !.ob.content_lc = c1.st.location_counter,
                              !.ob.content_pc = c1.st.position_counter]
         IN  IF IsPseudoOp(ln.opcode) THEN PseudoOpPass1(c2, ln, line_num)
             ELSE IF IsInstruction(ln.opcode)
             THEN LET c3 == Advance(c2, pass1_width_estimate)
                  IN  [c3 EXCEPT
                         !.ob.pass1_width_estimate = pass1_width_estimate,
                         !.st.deferred_force_upper_pending =
                             IF c3.st.position_counter # 0
                             THEN @ \/ GetBaseMnemonic(ln.opcode)
                                           \in DEFERRED_FORCE_MNEMONICS
                             ELSE FALSE]
             ELSE ReturnFalse(FailOnce(c2))

\* The labels that are defined by the statement itself, not at the location
\* counter (label_defined_by_pseudo).
LabelDefinedByPseudo(ln) ==
    ln.opcode \in {"EQU", "=", "SET", "END", "ENDL", "IDENT", "MACRO",
                   "OPDEF", "MICRO", "LOC", "RMT", "HERE"}

\* A label that "Label Definition" defines at the location counter.
IsRegularLabel(ln) ==
    ln.label # "" /\ ~LabelDefinedByPseudo(ln) /\ ln.label # NEGATING_LABEL

\* state_changed_by_block_pseudo
IsBlockPseudoOp(ln) == ln.opcode \in {"USE", "ABS", "REL", "LOC"}

\* The block control pseudo-op of the line reported an error.
BlockPseudoOpFails(c, ln) ==
    \/ ln.opcode = "USE" /\ ln.operand = ""
    \/ /\ ln.opcode = "LOC" /\ ln.label # ""
       /\ DefineFails(c.tab, ln.label, ln.value,
              [Attrs("absolute", ABS_BLOCK) EXCEPT !.defined_by_loc = TRUE])

\* process_line_pass_1 from the definition of a regular label on, the label
\* having been forced upper: the definition, then the opcode, or the force
\* a blank or label-only line applies to the line-start counters.
DefineLabelAndContentPass1(c2, ln, line_num, lc_at_line_start, pc_at_line_start, was_pending) ==
    LET attrs == Attrs(LabelType(c2.st), LabelBlockContext(c2.st))
        c3 == IF IsRegularLabel(ln)
              THEN DefineSymbol(c2, ln.label, c2.st.location_counter, line_num, attrs)
              ELSE c2
        label_failed ==
            IsRegularLabel(ln)
            /\ DefineFails(c2.tab, ln.label, c2.st.location_counter, attrs)
    IN  IF label_failed THEN ReturnFalse(c3)
        ELSE IF ln.opcode # "" /\ (IsBlockPseudoOp(ln) \/ IsConditionalDirective(ln))
        THEN c3
        ELSE IF ln.opcode # "" THEN OpcodePass1(c3, ln, line_num)
        ELSE IF /\ was_pending
                /\ \/ ln.label # "" /\ ln.label # NEGATING_LABEL
                   \/ ln.label = "" /\ ln.operand = ""
        THEN HandleForceUpper(
                 RestoreCounters(c3, lc_at_line_start, pc_at_line_start))
        ELSE c3

\* "Label Definition" of process_line_pass_1: a regular label or `+` forces
\* upper before the label is defined.
LabelDefinitionPass1(c1, ln, line_num, lc_at_line_start, pc_at_line_start, was_pending) ==
    DefineLabelAndContentPass1(
        IF /\ IsRegularLabel(ln) \/ ln.label = "+"
           /\ c1.st.position_counter # 0
        THEN HandleForceUpper(c1) ELSE c1,
        ln, line_num, lc_at_line_start, pc_at_line_start, was_pending)

\* process_line_pass_1 for a line that is assembled: the block control
\* pseudo-ops run first, then the label is defined, then the opcode is
\* processed.
BlockAndLabelPass1(c, ln, line_num, lc_at_line_start, pc_at_line_start, was_pending) ==
    IF ~IsBlockPseudoOp(ln)
    THEN LabelDefinitionPass1(c, ln, line_num, lc_at_line_start,
                              pc_at_line_start, was_pending)
    ELSE IF BlockPseudoOpFails(c, ln)
    THEN ReturnFalse(BlockPseudoOpPass1(c, ln, line_num))
    ELSE LabelDefinitionPass1(BlockPseudoOpPass1(c, ln, line_num), ln, line_num,
                              lc_at_line_start, pc_at_line_start, was_pending)

\* A line under a false stack top in process_line_pass_1: its label is
\* still defined, at the location counter, and nothing else is done.
SkippedLinePass1(c, ln, line_num) ==
    LET c1 == [c EXCEPT !.ob.skipped_by_conditional = TRUE]
    IN  IF /\ ln.label # "" /\ ln.label # NEGATING_LABEL
           /\ ~IsConditionalDirective(ln) /\ ~LabelDefinedByPseudo(ln)
        THEN IF DefineFails(c1.tab, ln.label, c1.st.location_counter,
                           Attrs(LabelType(c1.st), LabelBlockContext(c1.st)))
             THEN ReturnFalse(
                      DefineSymbol(c1, ln.label, c1.st.location_counter, line_num,
                          Attrs(LabelType(c1.st), LabelBlockContext(c1.st))))
             ELSE DefineSymbol(c1, ln.label, c1.st.location_counter, line_num,
                          Attrs(LabelType(c1.st), LabelBlockContext(c1.st)))
        ELSE c1

\* process_line_pass_1 from the test of the stack top on.
SkipCheckPass1(c1, ln, line_num, lc_at_line_start, pc_at_line_start, was_pending) ==
    IF ~StackTop(c1.st) THEN SkippedLinePass1(c1, ln, line_num)
    ELSE BlockAndLabelPass1(c1, ln, line_num, lc_at_line_start, pc_at_line_start,
                            was_pending)

\* process_line_pass_1 for a line that is neither a comment line nor
\* `EQU *`: a conditional directive is handled first, then the stack top
\* decides whether the line is assembled.
LineContentPass1(c, ln, line_num, lc_at_line_start, pc_at_line_start, was_pending) ==
    IF ~IsConditionalDirective(ln)
    THEN SkipCheckPass1(c, ln, line_num, lc_at_line_start, pc_at_line_start,
                        was_pending)
    ELSE IF ConditionalDirectiveFails(c, ln)
    THEN ReturnFalse(ConditionalDirective(c, ln, line_num))
    ELSE SkipCheckPass1(ConditionalDirective(c, ln, line_num), ln, line_num,
                        lc_at_line_start, pc_at_line_start, was_pending)

\* The observation of the line is closed with the state the line leaves.
CloseObservation(c) ==
    [c EXCEPT !.ob.cond_stack_after = c.st.conditional_stack,
              !.ob.exit_lc = c.st.location_counter,
              !.ob.exit_pc = c.st.position_counter,
              !.ob.exit_pending = c.st.deferred_force_upper_pending]

\* process_line_pass_1 after the deferred-force step.
AfterDeferredStepPass1(c1, ln, line_num, lc_at_line_start, pc_at_line_start, was_pending) ==
    IF ln.is_comment_line
    THEN IF ln.label # "" /\ ln.label # NEGATING_LABEL
         THEN DefineSymbol(c1, ln.label, c1.st.location_counter, line_num,
                           Attrs(LabelType(c1.st), LabelBlockContext(c1.st)))
         ELSE c1
    ELSE IF IsEquStar(ln)
    THEN EquStarPass1(c1, ln, line_num, lc_at_line_start, pc_at_line_start,
                      was_pending)
    ELSE LineContentPass1(c1, ln, line_num, lc_at_line_start, pc_at_line_start,
                          was_pending)

\* process_line_pass_1(state, ..., line_num, parsed)
ProcessLinePass1(c0, ln, line_num) ==
    LET c == [c0 EXCEPT !.ob = NewObservation(c0.st)]
    IN  IF c0.st.current_remote_block_name # NONE
        THEN CloseObservation(CollectRemoteLine(c, ln))
        ELSE IF c0.st.is_defining # NONE
        THEN CloseObservation(c)
        ELSE CloseObservation(
                 AfterDeferredStepPass1(DeferredForceStep(c, ln), ln, line_num,
                     c0.st.location_counter, c0.st.position_counter,
                     c0.st.deferred_force_upper_pending))

\* ------------------------------------------------------------------ Pass 2
\* output_generator.add_parcel_to_binary_word from a line handler.
AddParcel(c, address, value, width) ==
    [c EXCEPT
       !.og = AddParcelToBinaryWord(@, address, value, width),
       !.has_errors = @ \/ ParcelOverflows(c.og, address, width),
       !.errors = IF ParcelOverflows(c.og, address, width)
                  THEN Append(@, [line_num |-> 0, pass_number |-> c.st.pass_number])
                  ELSE @,
       !.ob.first_parcel_address =
           IF @ = NO_ADDRESS THEN address ELSE @,
       !.ob.parcels = Append(@, [value |-> value, width |-> width]),
       !.ob.emitted_bits = @ + width]

\* A VFD field in two's complement: a negative value is masked as it is.
GenerateVfdFieldTwosComplement(field_value, field_width) ==
    MaskWord(IntWord(field_value), field_width)

\* The field generate_vfd_parcels appends for an evaluated value and width:
\* (~abs(field_value)) & mask for a negative value, field_value & mask
\* otherwise.
GenerateVfdField(field_value, field_width) ==
    IF field_value < 0
    THEN MaskWord(IntWord(0 - (0 - field_value) - 1), field_width)
    ELSE MaskWord(IntWord(field_value), field_width)

\* LITERAL_REGEX: the operand is a literal, `=` and its content.
IsLiteralElement(expr) == expr \in {"=5"}

\* lookup_literal_address finds no address: the value is not in
\* literal_addr_map, and a value add_literal has appended after the layout
\* keeps the address -1.
LiteralAddressMissing(tab, value) == value \notin DOMAIN tab.literal_addr_map

\* The literal branch of _parse_single_element in Pass 2: the content is
\* added to the literal pool and its address is looked up; without an
\* address lookup_literal_address reports an error and ExpressionError is
\* raised.
LiteralElementPass2(c, ln) ==
    LET c1 == [c EXCEPT !.tab = AddLiteral(@, ln.value)]
    IN  IF LiteralAddressMissing(c1.tab, ln.value) THEN Fail(c1) ELSE c1

\* The value the DATA handler of Pass 2 takes for its operand: 0 when the
\* evaluation has raised.
DataItemValue(c, ln) ==
    IF ~IsLiteralElement(ln.operand) THEN ln.value
    ELSE IF LiteralAddressMissing(c.tab, ln.value) THEN 0
    ELSE c.tab.literal_addr_map[ln.value]

\* The (value, width) parcels a DATA, CON or VFD line hands to the emitter.
PseudoOpParcels(c, ln) ==
    IF ln.opcode \in {"DATA", "CON"}
    THEN <<[value |-> IntWord(DataItemValue(c, ln)), width |-> WORD_BITS]>>
    ELSE IF ln.opcode = "VFD"
    THEN <<[value |-> GenerateVfdField(ln.value, ln.width), width |-> ln.width]>>
    ELSE <<>>

\* The parcels assemble_instruction returns for an instruction line.
InstructionParcels(ln) ==
    <<[value |-> InstructionParcel(ln), width |-> InstructionWidth(ln.opcode)]>>

\* The emission loop for DATA, CON, DIS and VFD: the state counters move.
RECURSIVE EmitDataParcels(_, _)
EmitDataParcels(c, parcels) ==
    IF parcels = <<>> THEN c
    ELSE LET p  == Head(parcels)
             c1 == IF /\ c.st.position_counter + p.width > WORD_BITS
                      /\ c.st.position_counter # 0
                   THEN HandleForceUpper(c) ELSE c
             c2 == AddParcel(c1, c1.st.location_counter, p.value, p.width)
         IN  IF p.width <= 0 THEN EmitDataParcels(c, Tail(parcels))
             ELSE EmitDataParcels(Advance(c2, p.width), Tail(parcels))

\* The emission loop for instructions: it moves temp_bin_lc and temp_bin_pc,
\* local to the line, and leaves the state counters alone.
RECURSIVE EmitInstructionParcels(_, _, _, _)
EmitInstructionParcels(c, parcels, temp_bin_lc, temp_bin_pc) ==
    IF parcels = <<>> THEN c
    ELSE LET p  == Head(parcels)
             wrap == temp_bin_pc + p.width > WORD_BITS /\ temp_bin_pc # 0
             c1 == IF wrap THEN [c EXCEPT !.og = FlushBinaryWord(@, TRUE)] ELSE c
             lc1 == IF wrap THEN temp_bin_lc + 1 ELSE temp_bin_lc
             pc1 == IF wrap THEN 0 ELSE temp_bin_pc
             c2 == AddParcel(c1, lc1, p.value, p.width)
             full == pc1 + p.width = WORD_BITS
         IN  IF p.width <= 0
             THEN EmitInstructionParcels(c, Tail(parcels), temp_bin_lc, temp_bin_pc)
             ELSE EmitInstructionParcels(c2, Tail(parcels),
                      IF full THEN lc1 + 1 ELSE lc1,
                      IF full THEN 0 ELSE pc1 + p.width)

\* handle_pseudo_op_pass_2 for the pseudo-ops reached from the try block.
PseudoOpPass2(c, ln) ==
    IF ln.opcode = "IDENT"
    THEN IF c.tab.program_name_attributes = NONE THEN Fail(c) ELSE c
    ELSE IF ln.opcode \in {"DATA", "CON", "DIS", "BSS", "BSSZ"}
    THEN LET c1 == IF c.st.position_counter # 0 THEN HandleForceUpper(c) ELSE c
         IN  IF ln.opcode \in {"DATA", "CON"} /\ IsLiteralElement(ln.operand)
             THEN LiteralElementPass2(c1, ln) ELSE c1
    ELSE IF ln.opcode = "LOC"
    THEN [c EXCEPT !.og = FlushBinaryWord(@, TRUE),
                   !.ob.pre_switch_lc = c.st.location_counter,
                   !.st = SetLocationCounter(@, ln.value, 0, TRUE)]
    ELSE IF ln.opcode = "USE"
    THEN IF ln.operand = "" THEN c
         ELSE CallSwitchBlock([c EXCEPT !.og = FlushBinaryWord(@, TRUE),
                                        !.ob.pre_switch_lc = c.st.location_counter],
                              ln.operand)
    ELSE IF ln.opcode \in {"ABS", "REL"}
    THEN LET name == IF ln.opcode = "ABS" THEN ABS_BLOCK
                     ELSE IF ln.operand = "" THEN "*REL*" ELSE ln.operand
             c1 == [c EXCEPT !.og = FlushBinaryWord(@, TRUE)]
             c2 == IF c1.st.position_counter # 0 THEN HandleForceUpper(c1) ELSE c1
         IN  CallSwitchBlock([c2 EXCEPT !.ob.pre_switch_lc = c2.st.location_counter],
                             name)
    ELSE IF ln.opcode = "END"
    THEN [c EXCEPT !.st.end_statement_processed = TRUE]
    ELSE IF ln.opcode = "SET"
    THEN IF ln.label # "" /\ ExpressionRaises(c, ln.operand)
         THEN FailOnce(EvaluateExpression(c, ln.operand, c.st.current_line_number))
         ELSE c
    ELSE IF ln.opcode = "SKIP"
    THEN IF \/ ExpressionRaises(c, ln.operand)
            \/ ExpressionValue(c, ln.operand, ln.value) < 0
         THEN FailOnce(EvaluateExpression(c, ln.operand, c.st.current_line_number))
         ELSE [c EXCEPT !.st.skip_count = ExpressionValue(c, ln.operand, ln.value)]
    ELSE c

\* handle_pseudo_op_pass_2 for `EQU *`: the value it lists for the label.
EquStarListedValue(c, ln) ==
    IF ln.label \in DOMAIN c.tab.symbols
    THEN LET sym_entry == c.tab.symbols[ln.label]
         IN  IF /\ sym_entry.attrs.type = "relocatable"
                /\ sym_entry.attrs.block # ABS_BLOCK
                /\ sym_entry.attrs.block \in DOMAIN c.bases
             THEN sym_entry.value + c.bases[sym_entry.attrs.block]
             ELSE sym_entry.value
    ELSE 0

\* The `EQU *` branch of process_line_pass_2.
EquStarPass2(c, ln, lc_at_line_start, pc_at_line_start, was_pending) ==
    LET c1 == IF ln.label = "" THEN c
              ELSE [c EXCEPT !.ob.label_defined = ln.label \in DOMAIN c.tab.symbols,
                             !.ob.label_value = EquStarListedValue(c, ln)]
    IN  IF was_pending /\ ln.label # NEGATING_LABEL
        THEN HandleForceUpper(RestoreCounters(c1, lc_at_line_start, pc_at_line_start))
        ELSE c1

\* The rule at the end of the try block that sets or clears the pending flag.
PendingRulePass2(c, ln) ==
    IF ln.opcode # "" /\ IsInstruction(ln.opcode)
    THEN IF c.st.position_counter # 0
         THEN [c EXCEPT !.st.deferred_force_upper_pending =
                  @ \/ GetBaseMnemonic(ln.opcode) \in DEFERRED_FORCE_MNEMONICS]
         ELSE [c EXCEPT !.st.deferred_force_upper_pending = FALSE]
    ELSE IF ln.opcode \notin DEFERRED_FORCE_MNEMONICS /\ c.st.position_counter = 0
         THEN [c EXCEPT !.st.deferred_force_upper_pending = FALSE]
         ELSE c

\* The alignment of a labelled line in process_line_pass_2.
LabelForcePass2(c, ln) ==
    IF /\ ln.label # "" /\ ln.label # NEGATING_LABEL
       /\ c.st.position_counter # 0
    THEN HandleForceUpper(c) ELSE c

\* The pre-alignment of an instruction in process_line_pass_2.
InstructionForcePass2(c1, ln, pass1_width_estimate) ==
    IF /\ ln.opcode # "" /\ IsInstruction(ln.opcode)
       /\ ForceBeforeInstr(ln.opcode, pass1_width_estimate, c1.st.position_counter)
    THEN HandleForceUpper(c1) ELSE c1

\* The try block of process_line_pass_2: code generation and emission from
\* lc_for_generation_start, pc_for_generation_start.
GenerateLinePass2(c2, ln, pass1_width_estimate) ==
    LET lc_for_generation_start == c2.st.location_counter
        pc_for_generation_start == c2.st.position_counter
        c3 == [c2 EXCEPT !.ob.content_lc = lc_for_generation_start,
                         !.ob.content_pc = pc_for_generation_start]
    IN  IF ln.opcode = "" THEN c3
        ELSE IF IsPseudoOp(ln.opcode)
        THEN IF ln.opcode \in {"DATA", "CON", "DIS", "VFD"}
             THEN EmitDataParcels(PseudoOpPass2(c3, ln), PseudoOpParcels(c3, ln))
             ELSE PseudoOpPass2(c3, ln)
        ELSE IF IsInstruction(ln.opcode)
        THEN EmitInstructionParcels(c3, InstructionParcels(ln),
                 lc_for_generation_start, pc_for_generation_start)
        ELSE Advance(FailOnce(c3), pass1_width_estimate)

\* process_line_pass_2 from the label alignment to the end of the try block.
LineContentPass2(c, ln, pass1_width_estimate) ==
    PendingRulePass2(
        GenerateLinePass2(
            InstructionForcePass2(LabelForcePass2(c, ln), ln, pass1_width_estimate),
            ln, pass1_width_estimate),
        ln)

RECURSIVE ProcessLinePass2At(_, _, _, _)
RECURSIVE ReplayRemoteLinesPass2(_, _, _, _, _)

\* The body of the loop over lines_to_expand after process_line_pass_2 has
\* come back for the k-th stored line: a RecursionError goes on up, else
\* the next stored line is taken.
ReplayNextPass2(r, lines_to_expand, k, here_ob, depth) ==
    IF r.ob.raised
    THEN [r EXCEPT !.ob = [here_ob EXCEPT !.here_processed = k - 1,
                                          !.raised = TRUE]]
    ELSE ReplayRemoteLinesPass2([r EXCEPT !.ob = [here_ob EXCEPT !.here_processed = k]],
                                lines_to_expand, k + 1, here_ob, depth)

\* The loop of the HERE statement of process_line_pass_2 over the stored
\* lines, from the k-th on.  A stored line is the copy taken when the block
\* was collected, which carries no width estimate.
ReplayRemoteLinesPass2(c, lines_to_expand, k, here_ob, depth) ==
    IF k > Len(lines_to_expand) THEN c
    ELSE ReplayNextPass2(ProcessLinePass2At(c, lines_to_expand[k], 0, depth + 1),
                         lines_to_expand, k, here_ob, depth)

\* The replay of the remote block that HERE has found in remote_blocks.
StartReplayPass2(c, depth) ==
    ReplayRemoteLinesPass2(c, c.ob.here_lines, 1, c.ob, depth)

\* "HERE expansion" of process_line_pass_2: without an operand, or with the
\* name of a block remote_blocks does not hold, the line is only listed.
\* The block stays in remote_blocks, so a block that holds its own HERE is
\* replayed inside itself until the interpreter raises RecursionError.
HereExpansionPass2(c, ln, depth) ==
    IF ln.operand = "" \/ ln.operand \notin DOMAIN c.remote_blocks
    THEN c
    ELSE IF depth >= MaxHereDepth
    THEN [c EXCEPT !.ob.raised = TRUE]
    ELSE StartReplayPass2([c EXCEPT !.ob.here_lines = c.remote_blocks[ln.operand]],
                          depth)

\* process_line_pass_2 after the deferred-force step.
AfterDeferredStepPass2(c1, ln, pass1_width_estimate, lc_at_line_start, pc_at_line_start, was_pending, depth) ==
    IF ln.is_comment_line THEN c1
    ELSE IF IsEquStar(ln)
    THEN EquStarPass2(c1, ln, lc_at_line_start, pc_at_line_start, was_pending)
    ELSE IF IsConditionalDirective(ln)
    THEN ListIfDirectivePass2(
             ConditionalDirective(c1, ln, c1.st.current_line_number), ln,
             c1.st.current_line_number)
    ELSE IF ~StackTop(c1.st)
    THEN [c1 EXCEPT !.ob.skipped_by_conditional = TRUE]
    ELSE IF ln.opcode = "HERE"
    THEN HereExpansionPass2(c1, ln, depth)
    ELSE LineContentPass2(c1, ln, pass1_width_estimate)

\* process_line_pass_2(state, output_generator, assembler, line_num, parsed),
\* called at the given depth of remote block replay.
ProcessLinePass2At(c0, ln, pass1_width_estimate, depth) ==
    LET c == [c0 EXCEPT !.ob = NewObservation(c0.st)]
    IN  CloseObservation(
          IF c0.st.current_remote_block_name # NONE
          THEN IF (ln.opcode = "RMT" /\ ln.operand = "") \/ ln.opcode = "END"
               THEN [c EXCEPT !.st.current_remote_block_name = NONE] ELSE c
          ELSE IF c0.st.is_defining # NONE
          THEN IF ln.opcode = "ENDM" THEN [c EXCEPT !.st.is_defining = NONE] ELSE c
          ELSE IF ln.opcode \in {"MACRO", "OPDEF"}
          THEN [c EXCEPT !.st.is_defining = ln.opcode]
          ELSE IF ln.opcode = "MICRO" THEN c
          ELSE IF c0.st.skip_count > 0 /\ ln.opcode # "SKIP"
          THEN [c EXCEPT !.st.skip_count = @ - 1]
          ELSE IF ln.opcode = "RMT"
          THEN IF ln.operand # ""
               THEN [c EXCEPT !.st.current_remote_block_name = ln.operand] ELSE c
          ELSE AfterDeferredStepPass2(DeferredForceStep(c, ln), ln,
                   pass1_width_estimate, c0.st.location_counter,
                   c0.st.position_counter, c0.st.deferred_force_upper_pending,
                   depth))

\* process_line_pass_2 as the line loop of perform_pass(2) calls it.
ProcessLinePass2(c0, ln, pass1_width_estimate) ==
    ProcessLinePass2At(c0, ln, pass1_width_estimate, 0)

\* `except Exception` of perform_pass: an exception that left the line loop
\* is reported on the line the loop was at.
CatchUnexpected(c, line_num) ==
    IF c.ob.raised THEN AddError(c, line_num) ELSE c

\* ------------------------------------------------------------ the two passes
\* The block names of the model in the order sorted() gives them.
SortedBlockNames == <<"*ABS*", "*REL*", "X", "Y">>

\* The loop over state.block_order at the end of Pass 1: each block not yet
\* placed gets the running base, which then grows by the block's size.
RECURSIVE PlaceBlocksInOrder(_, _, _, _)
PlaceBlocksInOrder(block_order, block_lcs, bases, current_base_for_blocks) ==
    IF block_order = <<>>
    THEN [bases |-> bases, current_base_for_blocks |-> current_base_for_blocks]
    ELSE LET block_name == Head(block_order)
             block_size == IF block_name \in DOMAIN block_lcs
                           THEN block_lcs[block_name] ELSE 0
         IN  IF block_name \in DOMAIN bases
             THEN PlaceBlocksInOrder(Tail(block_order), block_lcs, bases,
                                     current_base_for_blocks)
             ELSE PlaceBlocksInOrder(Tail(block_order), block_lcs,
                      [b \in DOMAIN bases \cup {block_name} |->
                          IF b = block_name THEN current_base_for_blocks
                          ELSE bases[b]],
                      current_base_for_blocks + block_size)

\* The loop over sorted(state.block_lcs) that appends the blocks the first
\* loop did not place, when they have a size or are the last active block.
RECURSIVE PlaceRemainingBlocks(_, _, _, _, _)
PlaceRemainingBlocks(names, block_lcs, last_active_block, bases, current_base) ==
    IF names = <<>> THEN bases
    ELSE LET block_name == Head(names)
         IN  IF /\ block_name \in DOMAIN block_lcs
                /\ block_name \notin DOMAIN bases
                /\ block_lcs[block_name] > 0 \/ block_name = last_active_block
             THEN PlaceRemainingBlocks(Tail(names), block_lcs, last_active_block,
                      [b \in DOMAIN bases \cup {block_name} |->
                          IF b = block_name THEN current_base
                          ELSE bases[b]],
                      current_base + block_lcs[block_name])
             ELSE PlaceRemainingBlocks(Tail(names), block_lcs, last_active_block,
                      bases, current_base)

\* A layout that forgets the literal pool: the first named block starts at 0.
BlockBaseAddressesFromZero(st, literal_size) ==
    LET placed == PlaceBlocksInOrder(st.block_order, st.block_lcs,
                                     [b \in {ABS_BLOCK} |-> 0], 0)
    IN  PlaceRemainingBlocks(SortedBlockNames, st.block_lcs, st.current_block,
                             placed.bases, placed.current_base_for_blocks)

\* assembler.block_base_addresses as the end of Pass 1 computes it.
BlockBaseAddresses(st, literal_size) ==
    LET placed == PlaceBlocksInOrder(st.block_order, st.block_lcs,
                                     [b \in {ABS_BLOCK} |-> 0], literal_size)
    IN  PlaceRemainingBlocks(SortedBlockNames, st.block_lcs, st.current_block,
                             placed.bases, placed.current_base_for_blocks)

\* The definition of the END statement's label after the last line of Pass 1.
DefineEndLabel(c, last_processed_line_num) ==
    IF c.end_statement_label = NONE THEN c
    ELSE LET c1 == IF c.st.position_counter # 0 THEN HandleForceUpper(c) ELSE c
             st == c1.st
             relocatable == ~st.lc_is_absolute_due_to_loc
                            /\ st.current_block # ABS_BLOCK
             end_value == IF relocatable THEN st.block_lcs[st.current_block]
                          ELSE st.location_counter
             attrs == Attrs(IF relocatable THEN "relocatable" ELSE "absolute",
                            st.current_block)
             c2 == IF DefineFails(c1.tab, c.end_statement_label, end_value, attrs)
                   THEN AddErrorOnce(c1, last_processed_line_num) ELSE c1
         IN  [c2 EXCEPT
                !.tab = Define(@, c.end_statement_label, end_value,
                               last_processed_line_num, attrs)]

\* What perform_pass(1) does after its loop over the lines.
FinishPass1(c, last_processed_line_num) ==
    LET c1 == DefineEndLabel(c, last_processed_line_num)
        tab == AssignLiteralAddresses(c1.tab, 0)
    IN  [c1 EXCEPT !.tab = tab,
                   !.bases = BlockBaseAddresses(c1.st, GetLiteralBlockSize(tab))]

\* The literal pool loop of the Pass 2 set-up: one full word per literal.
RECURSIVE WriteLiteralPool(_, _)
WriteLiteralPool(c, literal_pool) ==
    IF literal_pool = <<>> THEN c
    ELSE LET lit_val == Head(literal_pool)
             lit_addr_abs == c.tab.literal_addr_map[lit_val]
             st1 == IF c.st.location_counter # lit_addr_abs
                       \/ c.st.position_counter # 0
                    THEN SetLocationCounter(c.st, lit_addr_abs, 0, FALSE)
                    ELSE c.st
         IN  WriteLiteralPool(
                 [c EXCEPT !.og = AddFullWordToBinary(@, lit_addr_abs, IntWord(lit_val)),
                           !.st = AdvanceLc(st1, WORD_BITS)],
                 Tail(literal_pool))

\* perform_pass(2) before its loop over the lines: reset_for_pass2, a new
\* OutputGenerator, the IDENT word and the literal pool.
BeginPass2(c, ident_line_num) ==
    LET st0 == ResetForPass2(c.st, GetLiteralBlockSize(c.tab))
        has_ident == ident_line_num # 0
        no_name == has_ident /\ c.tab.program_name_attributes = NONE
        c0 == [c EXCEPT !.st = st0]
        c1 == [(IF no_name THEN AddError(c0, ident_line_num) ELSE c0) EXCEPT
                 !.og = IF has_ident
                        THEN AddFullWordToBinary(OutputGeneratorInit, 0,
                                 IF c.tab.program_name_attributes # NONE
                                 THEN IdentWord(c.tab.program_name_attributes)
                                 ELSE ZeroWord)
                        ELSE OutputGeneratorInit]
        literal_pool == c.tab.literal_list
    IN  IF literal_pool = <<>> THEN c1
        ELSE LET c2 == WriteLiteralPool(
                           [c1 EXCEPT !.st = SetLocationCounter(@, 0, 0, FALSE)],
                           literal_pool)
             IN  [c2 EXCEPT !.st = SetLocationCounter(@, st0.location_counter,
                                       st0.position_counter, FALSE)]

\* ------------------------------------------------------------ source texts
\* The source lines the assembler is run on.
SourceLines ==
    {BlankLine, CommentLine,
     Line("", "NO", "", 0, 0),
     Line("", "SA1", "1", 0, 1),
     Line("", "RJ", "1", 0, 1),
     Line("A", "SA1", "1", 0, 1),
     Line("B", "SA1", "1", 0, 1),
     Line("-", "SA1", "1", 0, 1),
     Line("", "VFD", "30/1", 30, 1),
     Line("", "VFD", "7/177B", 7, 127),
     Line("", "BSS", "1", 0, 1),
     Line("", "DATA", "1", 0, 1),
     Line("A", "DATA", "1", 0, 1),
     Line("", "LIT", "5", 0, 5),
     Line("", "LIT", "-1", 0, -1),
     Line("A", "EQU", "*", 0, 0),
     Line("-", "EQU", "*", 0, 0),
     Line("A", "MICRO", "", 0, 0),
     Line("-", "MICRO", "", 0, 0),
     Line("", "USE", "X", 0, 0),
     Line("", "LOC", "2", 0, 2),
     Line("", "IDENT", "T", 0, 0),
     Line("", "END", "", 0, 0)}

\* The source lines of the remote block study: a remote block X is opened,
\* closed and expanded; LIT A fails (A is defined nowhere), the other
\* statements succeed.
RemoteLines ==
    {Line("", "RMT", "X", 0, 0), Line("", "RMT", "", 0, 0),
     Line("", "HERE", "X", 0, 0), Line("", "LIT", "A", 0, 0),
     Line("B", "SA1", "1", 0, 1), Line("", "NO", "", 0, 0),
     Line("", "END", "", 0, 0)}

\* A VFD statement with one field, width/value.
VfdLine(width, value) ==
    Line("", "VFD", ToString(width) \o "/" \o ToString(value), width, value)

\* The source lines of the VFD study: one field of each width with each
\* value, negative values and values wider than the field included, and a
\* statement that fails in Pass 1.
VfdLines ==
    {VfdLine(width, value) : width \in {1, 3, 15, 18, 30, 60},
                             value \in {-131071, -5, -1, 0, 1, 5, 127}}
    \cup {Line("", "LIT", "A", 0, 0)}

\* The source lines of the programs conditional assembly and the error
\* list are checked on.
ControlLines ==
    {CondLine("IFEQ", "1", "1"),
     CondLine("IFEQ", "1", "2"),
     CondLine("IFEQ", "A", "0"),
     Line("", "ELSE", "", 0, 0),
     Line("", "ENDIF", "", 0, 0),
     Line("", "SKIP", "1", 0, 1),
     Line("", "LIT", "A", 0, 0),
     Line("A", "SA1", "1", 0, 1),
     Line("", "DATA", "1", 0, 1),
     Line("", "END", "", 0, 0)}

\* The source lines of the programs the block layout is checked on.
LayoutLines ==
    {BlankLine,
     Line("", "RJ", "1", 0, 1),
     Line("", "DATA", "1", 0, 1),
     Line("", "BSS", "1", 0, 1),
     Line("", "LIT", "5", 0, 5),
     Line("", "LIT", "6", 0, 6),
     Line("", "USE", "X", 0, 0),
     Line("", "USE", "Y", 0, 0),
     Line("", "ABS", "", 0, 0),
     Line("E", "END", "", 0, 0)}

VARIABLES
    phase,          \* "pass1", "between", "pass2", "done" or "failed"
    parsed_lines,   \* assembler.parsed_lines, with pass1_lc and pass1_pos
    ctx,            \* the assembler: state, tables, output generator, errors
    line_num,       \* the number of the last line the running pass has read
    hist1,          \* per line, what Pass 1 was observed to do
    hist2           \* per line, what Pass 2 was observed to do

vars == <<phase, parsed_lines, ctx, line_num, hist1, hist2>>

\* Assembler.__init__ and the set-up of perform_pass(1).
AssemblerInit ==
    [st |-> AssemblerStateInit, tab |-> SymbolTableInit,
     og |-> OutputGeneratorInit, bases |-> [b \in {} |-> 0],
     micro_definitions |-> {}, end_statement_label |-> NONE,
     has_errors |-> FALSE, errors |-> <<>>,
     remote_blocks |-> [name \in {} |-> <<>>],
     ob |-> NewObservation(AssemblerStateInit)]

Init ==
    /\ phase = "pass1"
    /\ parsed_lines = <<>>
    /\ ctx = AssemblerInit
    /\ line_num = 0
    /\ hist1 = <<>>
    /\ hist2 = <<>>

\* One iteration of the line loop of perform_pass(1) on the next source
\* line, drawn from the given texts.
Pass1LineOf(Texts, MaxSourceLines) ==
    /\ phase = "pass1"
    /\ ~ctx.st.end_statement_processed
    /\ Len(parsed_lines) < MaxSourceLines
    /\ \E ln \in Texts :
         /\ ctx' = ProcessLinePass1(AtLine(ctx, line_num + 1), ln, line_num + 1)
         /\ parsed_lines' =
                Append(parsed_lines,
                       [line |-> ln,
                        pass1_lc |-> ctx.st.location_counter,
                        pass1_pos |-> ctx.st.position_counter,
                        pass1_width_estimate |-> ctx'.ob.pass1_width_estimate])
         /\ hist1' = Append(hist1, ctx'.ob)
    /\ line_num' = line_num + 1
    /\ UNCHANGED <<phase, hist2>>

Pass1Line == Pass1LineOf(SourceLines, MaxLines)

Pass1LayoutLine == Pass1LineOf(LayoutLines, MaxLayoutLines)

Pass1ControlLine == Pass1LineOf(ControlLines, MaxControlLines)

Pass1RemoteLine == Pass1LineOf(RemoteLines, MaxRemoteLines)

Pass1VfdLine == Pass1LineOf(VfdLines, MaxVfdLines)

\* The source is exhausted or END was read: perform_pass(1) defines the END
\* label, assigns the literal addresses and lays the blocks out.
EndPass1 ==
    /\ phase = "pass1"
    /\ ctx' = FinishPass1(ctx, line_num)
    /\ phase' = "between"
    /\ UNCHANGED <<parsed_lines, line_num, hist1, hist2>>

\* A first pass that lets the second one start whatever it reported.
Pass1AlwaysSucceeds(c) == TRUE

\* What perform_pass(1) returns, `not error_reporter.has_errors()`, and what
\* Assembler.assemble tests again before it starts Pass 2.
Pass1Succeeded(c) == ~c.has_errors

\* Assembler.assemble stops after a Pass 1 that reported errors.
Abort ==
    /\ phase = "between"
    /\ ~Pass1Succeeded(ctx)
    /\ phase' = "failed"
    /\ UNCHANGED <<parsed_lines, ctx, line_num, hist1, hist2>>

\* The index of the first IDENT line, 0 when there is none (ident_line_num).
IdentLineNum ==
    IF \E i \in 1..Len(parsed_lines) : parsed_lines[i].line.opcode = "IDENT"
    THEN CHOOSE i \in 1..Len(parsed_lines) :
            /\ parsed_lines[i].line.opcode = "IDENT"
            /\ \A j \in 1..(i - 1) : parsed_lines[j].line.opcode # "IDENT"
    ELSE 0

\* The scan for the IDENT line calls p_dict.get('opcode', '').upper(): a line
\* without an opcode that the scan reaches has opcode None, the call raises,
\* and perform_pass(2) reports the failure and returns.
IdentScanFails ==
    \E i \in 1..Len(parsed_lines) :
        /\ parsed_lines[i].line.opcode = ""
        /\ \A j \in 1..(i - 1) : parsed_lines[j].line.opcode # "IDENT"

\* perform_pass(2) up to its line loop.
StartPass2 ==
    /\ phase = "between"
    /\ Pass1Succeeded(ctx)
    /\ IF IdentScanFails
       THEN /\ ctx' = AddError([ctx EXCEPT
                                  !.st = ResetForPass2(@, GetLiteralBlockSize(ctx.tab)),
                                  !.og = OutputGeneratorInit], 0)
            /\ phase' = "failed"
       ELSE /\ ctx' = BeginPass2(ctx, IdentLineNum)
            /\ phase' = "pass2"
    /\ line_num' = 0
    /\ UNCHANGED <<parsed_lines, hist1, hist2>>

\* An exception has ended the line loop of perform_pass.
LineLoopLeft(h) == h # <<>> /\ h[Len(h)].raised

\* One iteration of the line loop of perform_pass(2).
Pass2Line ==
    /\ phase = "pass2"
    /\ line_num < Len(parsed_lines)
    /\ ~ctx.st.end_statement_processed
    /\ ~LineLoopLeft(hist2)
    /\ line_num' = line_num + 1
    /\ ctx' = LET parsed == parsed_lines[line_num']
                  fresh == [AtLine(ctx, line_num') EXCEPT !.ob = NewObservation(ctx.st)]
              IN  IF line_num' = IdentLineNum
                  THEN [fresh EXCEPT !.ob.processed = FALSE]
                  ELSE IF ctx.st.skip_count > 0
                  THEN [fresh EXCEPT
                          !.ob.processed = FALSE,
                          !.st.skip_count =
                              IF ~parsed.line.is_comment_line
                                 /\ parsed.line.opcode # "SKIP"
                              THEN @ - 1 ELSE @]
                  ELSE CatchUnexpected(
                           ProcessLinePass2(AtLine(ctx, line_num'), parsed.line,
                                            parsed.pass1_width_estimate),
                           line_num')
    /\ hist2' = Append(hist2, ctx'.ob)
    /\ UNCHANGED <<phase, parsed_lines, hist1>>

\* "CONTENT OF LITERALS BLOCK" of perform_pass(2): the address of every
\* literal of the pool is looked up for the listing, and a literal without
\* an address is reported on line 0.
ListLiteralsBlock(c) ==
    LET literal_pool == c.tab.literal_list
        missing == {i \in 1..Len(literal_pool) :
                       LiteralAddressMissing(c.tab, literal_pool[i])}
    IN  IF missing = {} THEN c
        ELSE [c EXCEPT !.has_errors = TRUE,
                       !.errors = @ \o [k \in 1..Cardinality(missing) |->
                                          [line_num |-> 0,
                                           pass_number |-> c.st.pass_number]]]

\* The line loop of perform_pass(2) is over: the last word is flushed and
\* the literals block is listed.
EndPass2 ==
    /\ phase = "pass2"
    /\ \/ line_num = Len(parsed_lines)
       \/ ctx.st.end_statement_processed
       \/ LineLoopLeft(hist2)
    /\ ctx' = ListLiteralsBlock([ctx EXCEPT !.og = FlushBinaryWord(@, TRUE)])
    /\ phase' = "done"
    /\ UNCHANGED <<parsed_lines, line_num, hist1, hist2>>

Next == Pass1Line \/ EndPass1 \/ Abort \/ StartPass2 \/ Pass2Line \/ EndPass2

Spec == Init /\ [][Next]_vars

\* The assembler run on the programs of the block layout study, up to the
\* end of Pass 1.
NextLayout == Pass1LayoutLine \/ EndPass1

SpecLayout == Init /\ [][NextLayout]_vars

\* The assembler run on the programs of the remote block study, up to the
\* end of Pass 1.
NextRemote == Pass1RemoteLine \/ EndPass1

SpecRemote == Init /\ [][NextRemote]_vars

\* Both passes over the programs of remote blocks.
NextHere == Pass1RemoteLine \/ EndPass1 \/ Abort \/ StartPass2 \/ Pass2Line \/ EndPass2

SpecHere == Init /\ [][NextHere]_vars

\* Longest program of the SET study.
MaxSetLines == 4

\* The source lines of the SET study: the symbol A is set and set again,
\* conditions refer to it, and a DATA statement has a literal operand.
SetLines ==
    {Line("A", "SET", "1", 0, 1), Line("A", "SET", "2", 0, 2),
     Line("B", "SET", "A", 0, 0),
     CondLine("IFEQ", "A", "1"), CondLine("IFNE", "A", "2"),
     Line("", "DATA", "1", 0, 1), Line("", "DATA", "=5", 0, 5),
     Line("", "ENDIF", "", 0, 0), Line("", "END", "", 0, 0)}

Pass1SetLine == Pass1LineOf(SetLines, MaxSetLines)

NextSet == Pass1SetLine \/ EndPass1 \/ Abort \/ StartPass2 \/ Pass2Line \/ EndPass2

SpecSet == Init /\ [][NextSet]_vars

\* Longest program of the symbol definition study.
MaxDefineLines == 3

\* The source lines of the symbol definition study: two program names, and
\* the names A and T defined by a label, by `EQU *` and by SET at the
\* addresses BSS makes different.
DefineLines ==
    {Line("", "IDENT", "T", 0, 0), Line("", "IDENT", "Q", 0, 0),
     Line("A", "SA1", "1", 0, 1), Line("T", "SA1", "1", 0, 1),
     Line("A", "EQU", "*", 0, 0), Line("A", "SET", "1", 0, 1),
     Line("", "BSS", "1", 0, 1), Line("", "END", "", 0, 0)}

Pass1DefineLine == Pass1LineOf(DefineLines, MaxDefineLines)

\* The assembler run on the programs of the symbol definition study, up to
\* the end of Pass 1.
NextDefine == Pass1DefineLine \/ EndPass1

SpecDefine == Init /\ [][NextDefine]_vars

\* The assembler run on the programs of the VFD study.
NextVfd ==
    Pass1VfdLine \/ EndPass1 \/ Abort \/ StartPass2 \/ Pass2Line \/ EndPass2

SpecVfd == Init /\ [][NextVfd]_vars

\* The assembler run on the programs of the conditional assembly study.
NextControl ==
    Pass1ControlLine \/ EndPass1 \/ Abort \/ StartPass2 \/ Pass2Line \/ EndPass2

SpecControl == Init /\ [][NextControl]_vars

\* ------------------------------------------------------------- properties
\* The base address the layout gave to a block.
BaseOf(block) == IF block \in DOMAIN ctx.bases THEN ctx.bases[block] ELSE 0

\* The machine address Pass 1 saw at entry to line i: the relative location
\* counter plus the base of the line's block (the counter itself under LOC).
Pass1EntryAddress(i) ==
    IF hist1[i].entry_loc_abs THEN hist1[i].entry_lc
    ELSE hist1[i].entry_lc + BaseOf(hist1[i].entry_block)

\* Line i was handed to process_line_pass_2.
ProcessedInPass2(i) == i <= Len(hist2) /\ hist2[i].processed

\* C1: for every source line that Pass 2 processes (no line of these
\* programs is skipped by a false conditional), the location counter at
\* entry to the line in Pass 1, relative plus the base of the line's block,
\* equals the absolute location counter at entry to the line in Pass 2.
C1_Pass1EntryEqualsPass2Entry ==
    \A i \in 1..Len(hist1) :
        ProcessedInPass2(i) => Pass1EntryAddress(i) = hist2[i].entry_lc

\* The counters of an observation as a bit offset.
BitOffset(lc, pc) == lc * WORD_BITS + pc

\* C2: for a source line that does not switch block or origin, the widths of
\* the parcels Pass 2 emits for the line plus the bits its forced-uppers skip
\* equal (LC_after*60 + PC_after) - (LC_before*60 + PC_before).
C2_EmittedPlusSkippedEqualsCounterChange ==
    \A i \in 1..Len(hist2) :
        hist2[i].processed /\ hist2[i].pre_switch_lc = NO_ADDRESS
        => hist2[i].emitted_bits + hist2[i].skipped_bits
           = BitOffset(hist2[i].exit_lc, hist2[i].exit_pc)
             - BitOffset(hist2[i].entry_lc, hist2[i].entry_pc)

\* The deferred force was executed at the top of the line: before any label
\* was defined and any content emitted, PC is 0, LC is in the next word when
\* PC was not 0, and the flag is cleared.
ForcedFirst(h) ==
    /\ h.step = "forced"
    /\ h.step_pc = 0
    /\ h.step_lc = h.entry_lc + (IF h.entry_pc # 0 THEN 1 ELSE 0)
    /\ ~h.step_pending

\* C3: when the deferred force is pending on entry to a line that neither
\* carries the negating label nor is an EQU *, both passes execute the
\* forced-upper and clear the flag before any label of the line is defined
\* and before any of its content is emitted.
C3_DeferredForceExecutedFirst ==
    \A i \in 1..Len(hist1) :
        LET ln == parsed_lines[i].line
        IN  ln.label # NEGATING_LABEL /\ ~IsEquStar(ln)
            => /\ hist1[i].entry_pending => ForcedFirst(hist1[i])
               /\ ProcessedInPass2(i) /\ hist2[i].entry_pending
                  => ForcedFirst(hist2[i])

\* The line gave its label the location counter it was entered with, and left
\* the counters forced to the next word with the flag cleared.
DefinedThenForced(h, entry_address) ==
    /\ h.label_defined
    /\ h.label_value = entry_address
    /\ h.exit_pc = 0
    /\ h.exit_lc = h.entry_lc + 1
    /\ ~h.exit_pending

\* No earlier line of the source carries the label of line i.
FirstUseOfLabel(i) ==
    \A j \in 1..(i - 1) : parsed_lines[j].line.label # parsed_lines[i].line.label

\* C4: when the deferred force is pending on entry to an EQU * line (whose
\* label is not the negating one and is not a duplicate), the label has the
\* LC of the word that holds the deferred-force instruction, the LC before
\* the force, and the force is executed after the definition: PC = 0, LC one
\* word further, flag cleared.  Pass 1 stores the value relative to the
\* block, Pass 2 lists it as a machine address.
C4_EquStarDefinedBeforeForce ==
    \A i \in 1..Len(hist1) :
        LET ln == parsed_lines[i].line
        IN  IsEquStar(ln) /\ ln.label # NEGATING_LABEL /\ FirstUseOfLabel(i)
            => /\ hist1[i].entry_pending
                  => DefinedThenForced(hist1[i], hist1[i].entry_lc)
               /\ ProcessedInPass2(i) /\ hist2[i].entry_pending
                  => DefinedThenForced(hist2[i], hist2[i].entry_lc)

\* The negating label cancelled the pending force: the flag is cleared, and
\* the counters after the step and where the content starts are those of entry.
Negated(h) ==
    /\ h.step = "negated"
    /\ ~h.step_pending
    /\ h.step_lc = h.entry_lc /\ h.step_pc = h.entry_pc
    /\ h.content_lc # NO_ADDRESS
       => h.content_lc = h.entry_lc /\ h.content_pc = h.entry_pc

\* C5: when the deferred force is pending on entry to a line whose label is
\* the negating label, both passes clear the flag and do not force: LC and PC
\* where the content of the line starts are the values of line entry.
C5_NegatingLabelCancelsForce ==
    \A i \in 1..Len(hist1) :
        parsed_lines[i].line.label = NEGATING_LABEL
        => /\ hist1[i].entry_pending => Negated(hist1[i])
           /\ ProcessedInPass2(i) /\ hist2[i].entry_pending => Negated(hist2[i])

\* C6: for every label Pass 1 defines, with block B and stored value r, on a
\* line for which Pass 2 emits content, Pass 2 places the first parcel of the
\* line at base[B] + r (at r for a label made absolute by LOC).
C6_LabelAddressIsFirstParcelAddress ==
    \A i \in 1..Len(hist1) :
        /\ hist1[i].label_defined
        /\ ProcessedInPass2(i)
        /\ hist2[i].first_parcel_address # NO_ADDRESS
        => hist2[i].first_parcel_address
           = IF hist1[i].entry_loc_abs THEN hist1[i].label_value
             ELSE BaseOf(hist1[i].label_block) + hist1[i].label_value

\* The sum of the sizes Pass 1 accumulated for the given blocks.
RECURSIVE SumOfSizes(_, _)
SumOfSizes(blocks, block_lcs) ==
    IF blocks = {} THEN 0
    ELSE LET b == CHOOSE x \in blocks : TRUE
         IN  block_lcs[b] + SumOfSizes(blocks \ {b}, block_lcs)

\* The words the location counter moved forward over the first n lines of
\* Pass 1, as seen from outside: where a line leaves the counter minus where
\* it found it, up to the switch on a USE, ABS, REL or LOC line.
RECURSIVE WordsAdvanced(_)
WordsAdvanced(n) ==
    IF n = 0 THEN 0
    ELSE WordsAdvanced(n - 1)
         + (IF hist1[n].pre_switch_lc # NO_ADDRESS
            THEN hist1[n].pre_switch_lc ELSE hist1[n].exit_lc)
         - hist1[n].entry_lc

\* The words the counter moved after the last line, for the END label.
WordsAdvancedAtEnd ==
    IF hist1 = <<>> THEN 0
    ELSE ctx.st.location_counter - hist1[Len(hist1)].exit_lc

\* The words the whole source occupies: those the location counter advanced
\* over in Pass 1 and those of the literal pool, which the layout puts first.
TotalAdvance ==
    WordsAdvanced(Len(hist1)) + WordsAdvancedAtEnd + GetLiteralBlockSize(ctx.tab)

\* C7: at the end of Pass 1 the sum of the sizes of all blocks equals the
\* total location-counter advance in words over the whole source minus the
\* literal-pool size.
C7_BlockSizesSumToAdvance ==
    phase = "between"
    => SumOfSizes(DOMAIN ctx.st.block_lcs, ctx.st.block_lcs)
       = TotalAdvance - GetLiteralBlockSize(ctx.tab)

\* The named blocks of the source in the order of their first USE.
RECURSIVE FirstUseOrder(_)
FirstUseOrder(n) ==
    IF n = 0 THEN <<>>
    ELSE LET before == FirstUseOrder(n - 1)
             ln == parsed_lines[n].line
         IN  IF /\ ln.opcode = "USE" /\ ln.operand \notin {"", ABS_BLOCK}
                /\ \A k \in 1..Len(before) : before[k] # ln.operand
             THEN Append(before, ln.operand) ELSE before

\* The sum of the Pass-1 sizes of the first n blocks of an order.
RECURSIVE SizeOfFirst(_, _)
SizeOfFirst(order, n) ==
    IF n = 0 THEN 0
    ELSE SizeOfFirst(order, n - 1) + ctx.st.block_lcs[order[n]]

\* C8: after Pass 1, base(*ABS*) = 0 and the base of each named block is the
\* literal-pool size plus the sum of the Pass-1 sizes of the named blocks
\* that precede it in first-USE order.
C8_BlockBasesInFirstUseOrder ==
    phase # "pass1"
    => LET order == FirstUseOrder(Len(parsed_lines))
       IN  /\ ctx.bases[ABS_BLOCK] = 0
           /\ DOMAIN ctx.bases = {ABS_BLOCK} \cup {order[k] : k \in 1..Len(order)}
           /\ \A k \in 1..Len(order) :
                  ctx.bases[order[k]]
                  = GetLiteralBlockSize(ctx.tab) + SizeOfFirst(order, k - 1)

\* Pass 1 ended with a literal pool and two named blocks, the first of them
\* not empty, so that the second block's base lies beyond the first's.
C8_TwoBlocksAfterLiterals ==
    /\ phase = "between"
    /\ GetLiteralBlockSize(ctx.tab) > 0
    /\ Len(ctx.st.block_order) = 2
    /\ ctx.st.block_lcs[ctx.st.block_order[1]] > 0
    /\ ctx.bases[ctx.st.block_order[2]] > ctx.bases[ctx.st.block_order[1]]
    /\ ctx.bases[ctx.st.block_order[1]] > 0

\* C9: the words of the binary output are written in ascending order of
\* machine address: each word written has an address greater than that of
\* every word written before it.
C9_WordsInAscendingAddressOrder ==
    \A i, j \in 1..Len(ctx.og.binary_file) :
        i < j => ctx.og.binary_file[i].address < ctx.og.binary_file[j].address

\* C10: every line written to the binary output is exactly 20 octal digits:
\* each word written is an integer in 0 .. 2^60 - 1.
C10_WordsAreTwentyOctalDigits ==
    \A i \in 1..Len(ctx.og.binary_file) :
        LET w == ctx.og.binary_file[i].word
        IN  /\ OctalLineLength(w) = OCTAL_DIGITS
            /\ OctalLineIsDigits(w)
            /\ InWordRange(w)

\* C11: when a line of Pass 1 defines a name that already has an entry that
\* is not redefinable, the call succeeds and leaves the entry as it was if
\* the value and all attributes are those of the entry, and is refused
\* with an error if the value or any attribute differs.
C11_RedefinitionOnlyIfIdentical ==
    \A i \in 1..Len(hist1) :
        LET h == hist1[i]
        IN  (h.define_called /\ h.define_existed
             /\ ~h.define_old_attrs.redefinable)
            => IF /\ h.define_value = h.define_old_value
                  /\ h.define_attrs = h.define_old_attrs
               THEN ~h.define_failed /\ h.define_unchanged
               ELSE h.define_failed /\ ctx.has_errors

\* The values the LIT lines of the program hand to add_literal.
LiteralsAdded ==
    {parsed_lines[i].line.value :
        i \in {j \in 1..Len(parsed_lines) : parsed_lines[j].line.opcode = "LIT"}}

\* The positions of a value in the literal pool.
PoolEntries(v) ==
    {i \in 1..Len(ctx.tab.literal_list) : ctx.tab.literal_list[i] = v}

\* C12: once Pass 1 has added the literals and assigned the addresses, the
\* pool holds the added values and nothing else, each value once, and each
\* value has one address, its place in the pool, that no other value has.
C12_OnePoolEntryAndAddressPerLiteral ==
    phase = "between" =>
        /\ \A i \in 1..Len(ctx.tab.literal_list) :
               ctx.tab.literal_list[i] \in LiteralsAdded
        /\ DOMAIN ctx.tab.literal_addr_map = LiteralsAdded
        /\ \A v \in LiteralsAdded :
               /\ Cardinality(PoolEntries(v)) = 1
               /\ ctx.tab.literal_addr_map[v] + 1 \in PoolEntries(v)
        /\ \A v, w \in LiteralsAdded :
               v # w => ctx.tab.literal_addr_map[v] # ctx.tab.literal_addr_map[w]

\* A program that adds one value twice and another value once has been
\* through the address assignment.
C12_ValueAddedTwice ==
    /\ phase = "between"
    /\ Cardinality(LiteralsAdded) = 2
    /\ \E i, j \in 1..Len(parsed_lines) :
           /\ i < j
           /\ parsed_lines[i].line.opcode = "LIT"
           /\ parsed_lines[j].line.opcode = "LIT"
           /\ parsed_lines[i].line.value = parsed_lines[j].line.value

\* ---------------------------------------------------------------------
\* C19: after every call of switch_block, in either pass and for every
\* target block name, the block that is already current included,
\* lc_is_absolute_due_to_loc and deferred_force_upper_pending are both false.
SwitchBlockLeavesFlagsClear(h) ==
    h.switch_called => ~h.switch_loc_abs /\ ~h.switch_pending

C19_SwitchBlockClearsBothFlags ==
    /\ \A i \in 1..Len(hist1) : SwitchBlockLeavesFlagsClear(hist1[i])
    /\ \A i \in 1..Len(hist2) : SwitchBlockLeavesFlagsClear(hist2[i])

\* Pass 1 has called switch_block inside a LOC range and again for the
\* block that was already current, and Pass 2 has called it as well.
C19_SwitchedAfterLocAndToCurrentBlock ==
    /\ \E i \in 1..Len(hist1) :
           hist1[i].switch_called /\ hist1[i].entry_loc_abs
    /\ \E i \in 1..Len(hist1) :
           hist1[i].switch_called /\ hist1[i].switch_target = hist1[i].entry_block
    /\ \E i \in 1..Len(hist2) : hist2[i].switch_called

\* ---------------------------------------------------------------------
\* C20: in Pass 1, every advance_lc or force_upper that consumes w > 0 words
\* adds w to the size of exactly one block, pre_loc_block_name when
\* lc_is_absolute_due_to_loc is set and current_block otherwise, and changes
\* the size of no other block.
SizeOf(block_lcs, b) == IF b \in DOMAIN block_lcs THEN block_lcs[b] ELSE 0

AddsWordsToOneBlock(r) ==
    LET target == IF r.loc_abs THEN r.pre_loc_block_name ELSE r.current_block
    IN  /\ r.words > 0
        /\ SizeOf(r.sizes_after, target) = SizeOf(r.sizes_before, target) + r.words
        /\ \A b \in (DOMAIN r.sizes_before \cup DOMAIN r.sizes_after) \ {target} :
               SizeOf(r.sizes_after, b) = SizeOf(r.sizes_before, b)

C20_WordsAddedToExactlyOneBlock ==
    \A i \in 1..Len(hist1) :
        \A k \in 1..Len(hist1[i].lc_calls) : AddsWordsToOneBlock(hist1[i].lc_calls[k])

\* Pass 1 has consumed words inside a LOC range that started in a block
\* other than the absolute one, so that the table held two blocks.
C20_WordsConsumedInLocRangeWithTwoBlocks ==
    \E i \in 1..Len(hist1) : \E k \in 1..Len(hist1[i].lc_calls) :
        /\ hist1[i].lc_calls[k].loc_abs
        /\ hist1[i].lc_calls[k].pre_loc_block_name # ABS_BLOCK
        /\ Cardinality(DOMAIN hist1[i].lc_calls[k].sizes_before) >= 2

\* ---------------------------------------------------------------------
\* C16: Pass 2 is never started when Pass 1 has recorded at least one error:
\* in such a run no source line is processed by the Pass-2 processor and no
\* word is emitted.
Pass1RecordedAnError ==
    \E i \in 1..Len(ctx.errors) : ctx.errors[i].pass_number = 1

C16_NoPass2AfterPass1Error ==
    Pass1RecordedAnError
    => /\ phase \in {"pass1", "between", "failed"}
       /\ hist2 = <<>>
       /\ ctx.og.binary_file = <<>>

\* The run was stopped after a Pass 1 that recorded an error on a line
\* followed by an error-free line that Pass 2 would have emitted a word for.
C16_StoppedAfterPass1Error ==
    /\ phase = "failed"
    /\ Pass1RecordedAnError
    /\ \E i \in 1..Len(parsed_lines) :
           /\ parsed_lines[i].line.opcode \in {"DATA", "SA1"}
           /\ \A k \in 1..Len(ctx.errors) : ctx.errors[k].line_num # i

\* ---------------------------------------------------------------------
\* The line of a history entry: hist1 and hist2 run parallel to parsed_lines.
IfDirectiveHandled(h, i) ==
    h.processed /\ h.cond_handled /\ IsIfDirective(parsed_lines[i].line)

\* The IF directive pushed (top AND condition) on the stack it found, and
\* neither the condition nor an operand of it was evaluated under a false
\* top.
PushesTopAndCondition(h) ==
    LET top == h.cond_stack_before[Len(h.cond_stack_before)]
    IN  /\ h.cond_stack_after = Append(h.cond_stack_before, top /\ h.cond_result)
        /\ h.cond_evaluated => top

\* C13: on every IF* directive, in both passes, the value pushed on the
\* conditional stack is (current top AND condition), and the condition is
\* evaluated only when the current top is true.
C13_IfPushesTopAndConditionEvaluatedOnlyUnderTrueTop ==
    /\ \A i \in 1..Len(hist1) :
           IfDirectiveHandled(hist1[i], i) => PushesTopAndCondition(hist1[i])
    /\ \A i \in 1..Len(hist2) :
           IfDirectiveHandled(hist2[i], i) => PushesTopAndCondition(hist2[i])

\* ---------------------------------------------------------------------
\* An ELSE the handler met with an IF open (more than the initial element
\* on the stack).
ElseHandledWithOpenIf(h, i) ==
    /\ h.processed
    /\ h.cond_handled
    /\ parsed_lines[i].line.opcode = "ELSE"
    /\ Len(h.cond_stack_before) > 1

\* The top t was replaced by (parent AND NOT t); all below is untouched.
ReplacesTopByParentAndNotTop(h) ==
    LET depth == Len(h.cond_stack_before)
    IN  /\ Len(h.cond_stack_after) = depth
        /\ SubSeq(h.cond_stack_after, 1, depth - 1) = SubSeq(h.cond_stack_before, 1, depth - 1)
        /\ h.cond_stack_after[depth] =
               (h.cond_stack_before[depth - 1] /\ ~h.cond_stack_before[depth])

\* C14: on ELSE with an open IF, in both passes, the top element t of the
\* conditional stack is replaced by (parent AND NOT t), parent being the
\* element directly below the top, and the stack depth is unchanged.
C14_ElseReplacesTopByParentAndNotTop ==
    /\ \A i \in 1..Len(hist1) :
           ElseHandledWithOpenIf(hist1[i], i) => ReplacesTopByParentAndNotTop(hist1[i])
    /\ \A i \in 1..Len(hist2) :
           ElseHandledWithOpenIf(hist2[i], i) => ReplacesTopByParentAndNotTop(hist2[i])

\* Pass 2 has handled an ELSE of an IF nested in a false branch (parent
\* false, t false) after Pass 1 handled the same ELSE.
C14_ElseInFalseParentInBothPasses ==
    \E i \in 1..Len(hist2) :
        /\ ElseHandledWithOpenIf(hist1[i], i)
        /\ ElseHandledWithOpenIf(hist2[i], i)
        /\ Len(hist2[i].cond_stack_before) = 3
        /\ ~hist2[i].cond_stack_before[2]
        /\ ~hist2[i].cond_stack_before[3]
        /\ ~hist1[i].cond_stack_before[2]

\* ---------------------------------------------------------------------
\* The number of IF directives open after the first n lines of the program,
\* -1 once an ELSE or an ENDIF stands where no IF is open.
RECURSIVE OpenIfs(_)
OpenIfs(n) ==
    IF n = 0 THEN 0
    ELSE LET before == OpenIfs(n - 1)
             ln == parsed_lines[n].line
         IN  IF before < 0 THEN -1
             ELSE IF ln.is_comment_line THEN before
             ELSE IF IsIfDirective(ln) THEN before + 1
             ELSE IF ln.opcode = "ENDIF" THEN before - 1
             ELSE IF ln.opcode = "ELSE" /\ before = 0 THEN -1
             ELSE before

\* Each IF of the program is closed by its own ENDIF, properly nested.
WellFormedProgram == OpenIfs(Len(parsed_lines)) = 0

\* C15: for every well-formed program (each IF* closed by its own ENDIF,
\* properly nested), the conditional stack at the end of each pass consists
\* of exactly one element, which is true.
C15_WellFormedProgramLeavesInitialStack ==
    (phase \in {"between", "done"} /\ WellFormedProgram)
    => ctx.st.conditional_stack = <<TRUE>>

\* ---------------------------------------------------------------------
\* C18: at most one error is recorded per source line: once an error has
\* been recorded for a line, every further error reported for the same line
\* is suppressed, whichever component reports it.
C18_AtMostOneErrorPerLine ==
    \A i, j \in 1..Len(ctx.errors) :
        (i # j /\ ctx.errors[i].line_num # 0)
        => ctx.errors[i].line_num # ctx.errors[j].line_num

\* ---------------------------------------------------------------------
\* The number of stored lines a HERE has to hand to process_line_pass_1:
\* all of them, or those up to the first END.
RequiredReplay(lines_to_expand) ==
    IF \E k \in 1..Len(lines_to_expand) : lines_to_expand[k].opcode = "END"
    THEN CHOOSE k \in 1..Len(lines_to_expand) :
            /\ lines_to_expand[k].opcode = "END"
            /\ \A j \in 1..(k - 1) : lines_to_expand[j].opcode # "END"
    ELSE Len(lines_to_expand)

\* C17: a failure while processing one source line never stops a pass:
\* after any handler fails on a line (including a line replayed from a
\* remote block), the driver still processes every following line up to
\* END or the end of the input.
C17_FailureNeverStopsThePass ==
    \A i \in 1..Len(hist1) :
        /\ hist1[i].processed
        /\ hist1[i].here_processed >= RequiredReplay(hist1[i].here_lines)

\* ---------------------------------------------------------------------
\* The bits lo..hi of a word, counted from bit 0 of the field.
FieldOf(w, lo, hi) == {b - lo : b \in {x \in w.mag : lo <= x /\ x <= hi}}

\* The written word is a 60-bit word that keeps the b buffered bits at its
\* head and continues with one no-op parcel for each 15 bits that are left.
PaddedWithNoops(buffered_word, b, written) ==
    /\ InWordRange(written)
    /\ FieldOf(written, WORD_BITS - b, WORD_BITS - 1)
           = FieldOf(buffered_word, WORD_BITS - b, WORD_BITS - 1)
    /\ \A k \in 1..((WORD_BITS - b) \div NOOP_WIDTH) :
           FieldOf(written, WORD_BITS - b - NOOP_WIDTH * k,
                   WORD_BITS - b - NOOP_WIDTH * k + NOOP_WIDTH - 1)
               = NOOP_15_BIT.mag

\* The flush at the end of Pass 2 met a partial word and wrote it padded.
FinalFlushPadsWithNoops ==
    (/\ phase = "pass2" /\ phase' = "done"
     /\ ctx.og.bits_in_buffer > 0 /\ ctx.og.bits_in_buffer < WORD_BITS)
    => /\ Len(ctx'.og.binary_file) = Len(ctx.og.binary_file) + 1
       /\ PaddedWithNoops(ctx.og.buffered_word, ctx.og.bits_in_buffer,
                          ctx'.og.binary_file[Len(ctx'.og.binary_file)].word)

\* C21: flushing a partial binary word that holds b filled bits
\* (0 < b < 60) writes one word whose leading b bits are the buffered
\* parcels unchanged and whose remaining 60 - b bits are filled with
\* 15-bit no-op parcels (octal 46000).
C21_FlushPadsPartialWordWithNoops == [][FinalFlushPadsWithNoops]_vars

\* ---------------------------------------------------------------------
\* The bits of v AND (2^n - 1) for v >= 0, of (NOT |v|) AND (2^n - 1) for
\* v < 0: the low n bits of v, or the low n bits that |v| does not have
\* (|v| < 2^18, so |v| has no bit above bit 17).
ExpectedVfdBits(v, n) ==
    IF v >= 0
    THEN {b \in 0..(n - 1) : b <= 17 /\ (v \div (2^b)) % 2 = 1}
    ELSE {b \in 0..(n - 1) : b > 17 \/ ((0 - v) \div (2^b)) % 2 = 0}

\* Pass 2 has assembled the VFD statement of line i.
VfdAssembled(i) ==
    /\ hist2[i].processed
    /\ parsed_lines[i].line.opcode = "VFD"

\* C22: for every VFD field of width n (1..60) and value v, the emitted
\* field equals v AND (2^n - 1) when v >= 0 and (NOT |v|) AND (2^n - 1)
\* when v < 0.
C22_VfdFieldIsMaskedOnesComplement ==
    \A i \in 1..Len(hist2) :
        VfdAssembled(i) =>
            LET ln == parsed_lines[i].line
            IN  hist2[i].parcels =
                    <<[value |-> [neg |-> FALSE,
                                  mag |-> ExpectedVfdBits(ln.value, ln.width)],
                       width |-> ln.width]>>

\* Pass 2 has emitted a negative value in a field that is narrower than
\* the value, and a negative value in a full word.
C22_NegativeFieldsEmitted ==
    \E i, j \in 1..Len(hist2) :
        /\ VfdAssembled(i) /\ VfdAssembled(j)
        /\ parsed_lines[i].line.value = -5 /\ parsed_lines[i].line.width = 3
        /\ parsed_lines[j].line.value = -131071 /\ parsed_lines[j].line.width = 60

\* ---------------------------------------------------------------------
\* The line of the history entry is an instruction that was assembled.
InstructionProcessed(h, i) ==
    /\ h.processed /\ ~h.skipped_by_conditional
    /\ IsInstruction(parsed_lines[i].line.opcode)
    /\ h.content_pc # NO_ADDRESS

\* The position in the word that follows the parcel of the instruction.
PositionAfterInstruction(h, i) ==
    (h.content_pc + InstructionWidth(parsed_lines[i].line.opcode)) % WORD_BITS

\* The flag is up after the line exactly if the instruction is one of JP,
\* RJ, PS, XJ and its parcel does not end the word.
FlagIffDeferredAndIncomplete(h, i) ==
    h.exit_pending <=>
        /\ GetBaseMnemonic(parsed_lines[i].line.opcode) \in DEFERRED_FORCE_MNEMONICS
        /\ PositionAfterInstruction(h, i) # 0

\* A statement that is not an instruction leaves the flag down unless it
\* found it up.
OtherStatementDoesNotSetFlag(h, i) ==
    (h.processed /\ ~IsInstruction(parsed_lines[i].line.opcode))
    => (h.exit_pending => h.entry_pending)

\* C23: in both passes, after an instruction line has been processed,
\* deferred_force_pending is true if and only if the instruction's base
\* mnemonic is JP, RJ, PS or XJ and the instruction left its word
\* incomplete (position counter non-zero after the instruction); no other
\* kind of statement sets the flag.
C23_FlagSetOnlyByIncompleteDeferredInstruction ==
    /\ \A i \in 1..Len(hist1) :
           /\ InstructionProcessed(hist1[i], i)
                  => FlagIffDeferredAndIncomplete(hist1[i], i)
           /\ OtherStatementDoesNotSetFlag(hist1[i], i)
    /\ \A i \in 1..Len(hist2) :
           /\ InstructionProcessed(hist2[i], i)
                  => FlagIffDeferredAndIncomplete(hist2[i], i)
           /\ OtherStatementDoesNotSetFlag(hist2[i], i)

\* ---------------------------------------------------------------------
\* Instruction width: the Pass-1 estimate and the Pass-2 choice.
\*
\* An operand is a record of the structure the regular expressions of
\* operand_parser.py find in it: form is the first structure that matches,
\* r1t/r2t the register letters, reg_num the digit of a single register,
\* op the operator, k the kind of its expression part ("int" for an integer
\* constant, "symbol" for a name T).  A format hint and a parsed_fmt tag are
\* sequences of characters.

\* What parse_operands raises: OperandParseError.
OperandParseError == <<"!">>

\* An operand of the given structure.
Operand(form, r1t, op, r2t, reg_num, k) ==
    [form |-> form, r1t |-> r1t, op |-> op, r2t |-> r2t, reg_num |-> reg_num, k |-> k]

\* One entry of the instruction map: a width and a format hint.
InstrDef(width, format) == [width |-> width, format |-> format]

\* _parse_expression_operand: TRUE if the expression part evaluates.  An
\* integer always does; a symbol does if the table holds it (symbol_type is
\* the type it is held with, "undefined" if it is not held), and raises
\* ExpressionError otherwise, with or without suppress_undefined_error.
ExpressionEvaluates(k, symbol_type) ==
    k = "int" \/ (k = "symbol" /\ symbol_type # "undefined")

\* The type _parse_single_element gives the expression part: that of the
\* symbol in Pass 1, absolute in Pass 2.
OperandExpressionType(k, pass_number, symbol_type) ==
    IF k = "symbol" /\ pass_number = 1 THEN symbol_type ELSE "absolute"

\* parse_operands, steps 6 and 7: a single register, then an expression.
ParseRegisterOrExpression(operand, fmt, pass_number, symbol_type) ==
    IF operand.form = "reg"
    THEN IF Len(fmt) = 5 /\ fmt[1] = "X" /\ fmt[2] = "J" /\ fmt[4] = "X" /\ fmt[5] = "K"
         THEN <<"X", "J">>
         ELSE IF fmt = <<"B", "J", ",", "X", "K">> /\ operand.r1t = "X"
         THEN <<"X", "K">>
         ELSE <<operand.r1t, operand.reg_num>>
    ELSE IF operand.form = "empty"
    THEN <<"K">>
    ELSE IF ~ExpressionEvaluates(operand.k, symbol_type)
    THEN OperandParseError
    ELSE IF /\ fmt \in {<<"J", "K">>, <<"B", "J", ",", "X", "K">>, <<"X", "K">>}
            /\ operand.k = "int"
    THEN <<"J", "K">>
    ELSE IF fmt = <<"J", "K">>
    THEN IF OperandExpressionType(operand.k, pass_number, symbol_type) # "absolute"
         THEN OperandParseError
         ELSE <<"J", "K">>
    ELSE <<"K">>

\* parse_operands: the parsed_fmt tag of the operand under a format hint,
\* or OperandParseError.
ParseOperands(operand, fmt, pass_number, symbol_type) ==
    IF fmt = <<>>
    THEN IF operand.form # "empty" THEN OperandParseError ELSE <<>>
    ELSE IF operand.form = "empty" /\ \E n \in 1..Len(fmt) : fmt[n] = "K"
    THEN <<"K">>
    ELSE IF operand.form = "reg_op_reg"
    THEN <<operand.r1t, "J", operand.op, operand.r2t, "K">>
    ELSE IF operand.form = "reg_comma_k"
    THEN IF ~ExpressionEvaluates(operand.k, symbol_type)
         THEN OperandParseError
         ELSE <<operand.r1t, IF fmt = <<"B", "I", ",", "K">> THEN "I" ELSE "J", ",", "K">>
    ELSE IF operand.form = "reg_op_k"
    THEN IF ~ExpressionEvaluates(operand.k, symbol_type)
         THEN OperandParseError
         ELSE <<operand.r1t,
                IF fmt \in {<<"B", "I", "+", "K">>, <<"B", "I", "-", "K">>} THEN "I" ELSE "J",
                operand.op, "K">>
    ELSE IF operand.form = "neg_xk"
    THEN IF operand.r1t = "X" THEN <<"-", "X", "K">> ELSE OperandParseError
    ELSE ParseRegisterOrExpression(operand, fmt, pass_number, symbol_type)

\* str.endswith, for a tag and a suffix.
EndsWith(parsed_fmt, suffix) ==
    /\ Len(parsed_fmt) >= Len(suffix)
    /\ SubSeq(parsed_fmt, Len(parsed_fmt) - Len(suffix) + 1, Len(parsed_fmt)) = suffix

\* implies_K_field of both resolvers.
ImpliesKField(parsed_fmt) ==
    \/ parsed_fmt = <<"K">>
    \/ EndsWith(parsed_fmt, <<",", "K">>)
    \/ EndsWith(parsed_fmt, <<"+", "K">>)
    \/ EndsWith(parsed_fmt, <<"-", "K">>)
    \/ /\ Len(parsed_fmt) >= 1 /\ parsed_fmt[1] = "-"
       /\ EndsWith(parsed_fmt, <<"J">>)
       /\ ~(Len(parsed_fmt) >= 2 /\ parsed_fmt[2] = "X")

\* is_typical_15bit_reg_format of both resolvers.
IsTypical15BitRegFormat(parsed_fmt) ==
    \/ /\ Len(parsed_fmt) = 5
       /\ parsed_fmt[1] \in {"A", "B", "X"} /\ parsed_fmt[2] = "J"
       /\ parsed_fmt[3] \in {",", "+", "*", "/", "-"}
       /\ parsed_fmt[4] \in {"A", "B", "X"} /\ parsed_fmt[5] = "K"
    \/ /\ Len(parsed_fmt) = 6
       /\ parsed_fmt[1] = "-"
       /\ parsed_fmt[2] \in {"A", "B", "X"} /\ parsed_fmt[3] = "K"
       /\ parsed_fmt[4] \in {"+", "*", "/", "-"}
       /\ parsed_fmt[5] \in {"A", "B", "X"} /\ parsed_fmt[6] = "J"
    \/ /\ Len(parsed_fmt) = 2
       /\ parsed_fmt[1] \in {"A", "B", "X"}
       /\ parsed_fmt[2] \in {"0", "1", "2", "3", "4", "5", "6", "7"}
    \/ parsed_fmt = <<"-", "X", "K">>
    \/ parsed_fmt = <<"J", "K">>

\* The definitions of one width, in the order of the map.
DefsOfWidth(instr_details_list, width) ==
    SelectSeq(instr_details_list, LAMBDA d : d.width = width)

\* The positions of the definitions whose format the operand parses under.
ParsingDefs(defs, operand, pass_number, symbol_type) ==
    {i \in 1..Len(defs) :
        ParseOperands(operand, defs[i].format, pass_number, symbol_type)
            # OperandParseError}

\* The width the estimator falls back on when no format parses: that of
\* the first definition of the map.
FallbackWidth(instr_details_list) ==
    IF instr_details_list = <<>> THEN 15
    ELSE IF instr_details_list[1].width \in {15, 30, 60}
    THEN instr_details_list[1].width
    ELSE 15

\* The estimator below its 15-bit attempt: 30-bit, 60-bit, the 15-bit match,
\* the fallback.
EstimateWithoutPreference(instr_details_list, operand, symbol_type, match_15bit_success) ==
    IF ParsingDefs(DefsOfWidth(instr_details_list, 30), operand, 1, symbol_type) # {}
    THEN 30
    ELSE IF ParsingDefs(DefsOfWidth(instr_details_list, 60), operand, 1, symbol_type) # {}
    THEN 60
    ELSE IF match_15bit_success
    THEN 15
    ELSE FallbackWidth(instr_details_list)

\* The estimator once the first 15-bit definition that parses gave its tag.
EstimateWithMatch(instr_details_list, operand, symbol_type, parsed_fmt_15bit) ==
    IF DefsOfWidth(instr_details_list, 30) # <<>>
    THEN IF /\ ImpliesKField(parsed_fmt_15bit) /\ parsed_fmt_15bit # <<"J", "K">>
            /\ ~IsTypical15BitRegFormat(parsed_fmt_15bit)
         THEN IF ParsingDefs(DefsOfWidth(instr_details_list, 30), operand, 1, symbol_type) # {}
              THEN 30
              ELSE 15
         ELSE 15
    ELSE EstimateWithoutPreference(instr_details_list, operand, symbol_type, TRUE)

\* _estimate_instruction_width_pass1
EstimateInstructionWidthPass1(instr_details_list, operand, symbol_type) ==
    IF ParsingDefs(DefsOfWidth(instr_details_list, 15), operand, 1, symbol_type) # {}
    THEN EstimateWithMatch(instr_details_list, operand, symbol_type,
             ParseOperands(operand,
                 DefsOfWidth(instr_details_list, 15)[
                     CHOOSE i \in ParsingDefs(DefsOfWidth(instr_details_list, 15), operand, 1, symbol_type) :
                         \A j \in ParsingDefs(DefsOfWidth(instr_details_list, 15), operand, 1, symbol_type) : i <= j
                 ].format, 1, symbol_type))
    ELSE EstimateWithoutPreference(instr_details_list, operand, symbol_type, FALSE)

\* sorted(details_list, key=width): a stable sort.
SortedDetails(details_list) ==
    DefsOfWidth(details_list, 15) \o DefsOfWidth(details_list, 30) \o DefsOfWidth(details_list, 60)

\* The definition at the position is taken by the loop of assemble_instruction:
\* its format parses, and it is not a 15-bit definition skipped for a 30-bit one.
DefinitionAccepted(sorted_details, i, operand, symbol_type) ==
    /\ ParseOperands(operand, sorted_details[i].format, 2, symbol_type) # OperandParseError
    /\ ~ /\ Len(sorted_details) > 1
         /\ sorted_details[i].width = 15
         /\ ImpliesKField(ParseOperands(operand, sorted_details[i].format, 2, symbol_type))
         /\ ~IsTypical15BitRegFormat(ParseOperands(operand, sorted_details[i].format, 2, symbol_type))
         /\ \E j \in 1..Len(sorted_details) : sorted_details[j].width = 30

\* The positions the loop of assemble_instruction would take.
AcceptedDefinitions(sorted_details, operand, symbol_type) ==
    {i \in 1..Len(sorted_details) : DefinitionAccepted(sorted_details, i, operand, symbol_type)}

\* assemble_instruction: the width of the chosen definition, 0 if the
\* operand matches no format (the function returns None).
ChosenWidthPass2(details_list, operand, symbol_type) ==
    IF AcceptedDefinitions(SortedDetails(details_list), operand, symbol_type) = {}
    THEN 0
    ELSE SortedDetails(details_list)[
             CHOOSE i \in AcceptedDefinitions(SortedDetails(details_list), operand, symbol_type) :
                 \A j \in AcceptedDefinitions(SortedDetails(details_list), operand, symbol_type) : i <= j
         ].width

\* The operands explored: none, X1*X2, A1+B2, A1+5, A1-5, A1+T, B2,T, X1,
\* -X1, 5 and T, where T is a symbol.
WidthOperands ==
    { Operand("empty", "", "", "", "", ""),
      Operand("reg_op_reg", "X", "*", "X", "", ""),
      Operand("reg_op_reg", "A", "+", "B", "", ""),
      Operand("reg_op_k", "A", "+", "", "", "int"),
      Operand("reg_op_k", "A", "-", "", "", "int"),
      Operand("reg_op_k", "A", "+", "", "", "symbol"),
      Operand("reg_comma_k", "B", "", "", "", "symbol"),
      Operand("reg", "X", "", "", "1", ""),
      Operand("neg_xk", "X", "", "", "", ""),
      Operand("expr", "", "", "", "", "int"),
      Operand("expr", "", "", "", "", "symbol") }

\* The definitions an instruction map gives one mnemonic, in the order of
\* the file: NO; RJ K; JP Bi+K; RE Bj+K; BXi Xj and Xj*Xk; LXi jk and Bj,Xk;
\* SAi Aj+K and Aj+Bk in either order.
WidthDetailLists ==
    { <<InstrDef(15, <<>>)>>,
      <<InstrDef(30, <<"K">>)>>,
      <<InstrDef(30, <<"B", "I", "+", "K">>)>>,
      <<InstrDef(60, <<"B", "J", "+", "K">>)>>,
      <<InstrDef(15, <<"X", "J">>), InstrDef(15, <<"X", "J", "*", "X", "K">>)>>,
      <<InstrDef(15, <<"J", "K">>), InstrDef(15, <<"B", "J", ",", "X", "K">>)>>,
      <<InstrDef(30, <<"A", "J", "+", "K">>), InstrDef(15, <<"A", "J", "+", "B", "K">>)>>,
      <<InstrDef(15, <<"A", "J", "+", "B", "K">>), InstrDef(30, <<"A", "J", "+", "K">>)>> }

\* One instruction line before Pass 1 reaches it: its definitions, its
\* operand, and how the table holds the symbol T at that point: not yet
\* ("undefined"), as a label of the absolute block or as one of a named
\* block.  The program defines T by its end, so Pass 2 always finds it.
InitWidth ==
    /\ phase = "estimate"
    /\ parsed_lines \in
           { <<[instr_details_list |-> details, operand |-> operand,
                symbol_type |-> symbol_type]>> :
               details \in WidthDetailLists, operand \in WidthOperands,
               symbol_type \in {"undefined", "absolute", "relocatable"} }
    /\ ctx = AssemblerInit
    /\ line_num = 1
    /\ hist1 = <<>>
    /\ hist2 = <<>>

\* process_line_pass_1, instruction branch: the estimate is cached on the
\* parsed line.
EstimateWidthOfLine ==
    /\ phase = "estimate"
    /\ hist1' = <<EstimateInstructionWidthPass1(parsed_lines[1].instr_details_list,
                      parsed_lines[1].operand, parsed_lines[1].symbol_type)>>
    /\ phase' = "resolve"
    /\ UNCHANGED <<parsed_lines, ctx, line_num, hist2>>

\* process_line_pass_2, instruction branch: assemble_instruction chooses
\* the definition.
ChooseWidthOfLine ==
    /\ phase = "resolve"
    /\ hist2' = <<ChosenWidthPass2(parsed_lines[1].instr_details_list,
                      parsed_lines[1].operand, "absolute")>>
    /\ phase' = "resolved"
    /\ UNCHANGED <<parsed_lines, ctx, line_num, hist1>>

NextWidth == EstimateWidthOfLine \/ ChooseWidthOfLine

SpecWidth == InitWidth /\ [][NextWidth]_vars

\* C24: for every instruction line, the parcel width chosen by the
\* authoritative Pass-2 resolver equals the width Pass 1 estimated for that
\* line, including when the operand refers to a symbol that was not yet
\* defined when Pass 1 reached the line.
C24_Pass2WidthEqualsPass1Estimate ==
    (phase = "resolved" /\ hist2[1] # 0) => hist2[1] = hist1[1]

\* ---------------------------------------------------------------------
\* The HERE statement on the i-th line found its remote block in Pass 1 and
\* took its stored lines as far as their end.
ExpandedInPass1(i) ==
    /\ parsed_lines[i].line.opcode = "HERE"
    /\ hist1[i].here_lines # <<>>
    /\ hist1[i].here_processed = Len(hist1[i].here_lines)

\* C25: for every HERE statement whose remote block Pass 1 expanded inline,
\* Pass 2 replays the same stored lines, in the same order, through the
\* Pass-2 processor at that HERE statement.
C25_Pass2ReplaysTheLinesPass1Expanded ==
    \A i \in 1..Len(hist2) :
        (i <= Len(hist1) /\ ExpandedInPass1(i))
        => /\ hist2[i].here_lines = hist1[i].here_lines
           /\ hist2[i].here_processed = Len(hist1[i].here_lines)

\* ---------------------------------------------------------------------
\* The i-th line is the line after a `SKIP 1` that Pass 1 assembled and
\* that no earlier SKIP covered.
FollowsSkip(i) ==
    /\ parsed_lines[i - 1].line.opcode = "SKIP"
    /\ hist1[i - 1].processed /\ hist1[i - 1].returned
    /\ ~hist1[i - 1].skipped_by_conditional
    /\ (i = 2 \/ parsed_lines[i - 2].line.opcode # "SKIP")

\* The line was treated as a comment: it defined no symbol and moved
\* neither counter (and so no block size).
TreatedAsComment(h) ==
    /\ ~h.define_called
    /\ h.exit_lc = h.entry_lc
    /\ h.exit_pc = h.entry_pc

\* C26: after SKIP n, the next n source lines are treated as comments in
\* both passes: in each pass they define no symbol and change neither LC,
\* PC nor any block size, and normal processing resumes with the line after
\* them.
C26_SkippedLinesAreCommentsInBothPasses ==
    \A i \in 2..Len(hist1) :
        FollowsSkip(i)
        => /\ TreatedAsComment(hist1[i])
           /\ i <= Len(hist2) => TreatedAsComment(hist2[i])

\* ---------------------------------------------------------------------
\* The line of the history entry is a BSS or BSSZ statement that was
\* assembled.
ReservesStorage(h, i) ==
    /\ h.processed /\ h.returned /\ ~h.skipped_by_conditional
    /\ parsed_lines[i].line.opcode \in {"BSS", "BSSZ"}

\* The location counter at the start of the statement, moved up to the
\* next word if the statement starts inside a word.
WordAlignedStart(h) ==
    IF h.step_pc = 0 THEN h.step_lc ELSE h.step_lc + 1

\* The statement left the counters at the aligned start plus n words.
LeavesAlignedStartPlusN(h, i) ==
    /\ h.exit_pc = 0
    /\ h.exit_lc = WordAlignedStart(h) + parsed_lines[i].line.value

\* C27: BSS n and BSSZ n, in both passes, leave PC = 0 and LC equal to the
\* word-aligned LC at the start of the statement plus n.
C27_BssLeavesAlignedStartPlusN ==
    /\ \A i \in 1..Len(hist1) :
           ReservesStorage(hist1[i], i) => LeavesAlignedStartPlusN(hist1[i], i)
    /\ \A i \in 1..Len(hist2) :
           ReservesStorage(hist2[i], i) => LeavesAlignedStartPlusN(hist2[i], i)

\* The line on which a literal value first occurs.
FirstOccurrence(v) ==
    CHOOSE i \in 1..Len(parsed_lines) :
        /\ parsed_lines[i].line.opcode = "LIT"
        /\ parsed_lines[i].line.value = v
        /\ \A j \in 1..(i - 1) :
               ~(parsed_lines[j].line.opcode = "LIT" /\ parsed_lines[j].line.value = v)

\* The number of distinct literals that first occur before v does.
LiteralsBefore(v) ==
    Cardinality({w \in LiteralsAdded : FirstOccurrence(w) < FirstOccurrence(v)})

\* The words the binary image holds for an address.
WordsPlacedAt(address) ==
    {ctx.og.binary_file[i].word :
        i \in {j \in 1..Len(ctx.og.binary_file) :
                  ctx.og.binary_file[j].address = address}}

\* C28: when the assembly is complete, the N distinct literals of the program
\* have the addresses 0 .. N-1 in the order of their first occurrence, and
\* the word the final image holds at the address of a literal is that literal
\* and no other word.
C28_LiteralWordAtItsAssignedAddress ==
    phase = "done" =>
        \A v \in LiteralsAdded :
            /\ ctx.tab.literal_addr_map[v] = LiteralsBefore(v)
            /\ WordsPlacedAt(ctx.tab.literal_addr_map[v]) = {IntWord(v)}

\* The scan of perform_pass(1) over the source before its line loop: every
\* statement LIT outside a comment line is evaluated against the tables as
\* they are before Pass 1, and the absolute values are collected.
RECURSIVE LiteralScan(_, _)
LiteralScan(lines, temp_literal_pool) ==
    IF lines = <<>> THEN temp_literal_pool
    ELSE LET ln == Head(lines)
             collected == /\ ~ln.is_comment_line
                          /\ ln.opcode = "LIT"
                          /\ ln.operand # ""
                          /\ ~ExpressionRaises(AssemblerInit, ln.operand)
                          /\ ExpressionType(AssemblerInit, ln.operand) = "absolute"
         IN  LiteralScan(Tail(lines),
                         IF collected
                         THEN temp_literal_pool
                                  \cup {ExpressionValue(AssemblerInit, ln.operand, ln.value)}
                         ELSE temp_literal_pool)

\* literal_size as the scan leaves it: len(temp_literal_pool).
PrePassLiteralSize(lines) == Cardinality(LiteralScan(lines, {}))

\* The lines of the source file.
SourceFile == [i \in 1..Len(parsed_lines) |-> parsed_lines[i].line]

\* C29: the literal block size the scan before Pass 1 finds is the size of
\* the literal pool the block bases are laid out with when Pass 1 ends, and
\* the location counter Pass 2 starts at.
C29_PrePassSizeIsTheLayoutSize ==
    /\ phase = "between" =>
           PrePassLiteralSize(SourceFile) = GetLiteralBlockSize(ctx.tab)
    /\ (phase = "pass2" /\ line_num = 0) =>
           PrePassLiteralSize(SourceFile) = ctx.st.location_counter

\* ------------------------------------------------------ relocation rules
\* What _parse_single_element returns for an element: its value, its type
\* and its block (NONE for None).
Element(value, type, block) == [value |-> value, type |-> type, block |-> block]

\* What an evaluation yields: the returned triple, or ExpressionError.
Returned(value, type, block) ==
    [raised |-> FALSE, value |-> value, type |-> type, block |-> block]

ExpressionErrorRaised == [raised |-> TRUE, value |-> 0, type |-> "error", block |-> NONE]

\* val1 ^ val2 of Python, for operands that are not negative.
RECURSIVE BitXor(_, _)
BitXor(a, b) ==
    IF a = 0 THEN b
    ELSE IF b = 0 THEN a
    ELSE (((a % 2) + (b % 2)) % 2) + 2 * BitXor(a \div 2, b \div 2)

\* The type _apply_reloc_rules gives the result, "error" where it raises.
RelocType(type1, op, type2) ==
    LET type1_eff == IF type1 = "literal_addr" THEN "absolute" ELSE type1
        type2_eff == IF type2 = "literal_addr" THEN "absolute" ELSE type2
    IN  IF op \in {"+", "-"}
        THEN IF type1 = "absolute" /\ type2 = "absolute" THEN "absolute"
             ELSE IF type1 = "absolute" /\ type2 = "relocatable" THEN "relocatable"
             ELSE IF type1 = "relocatable" /\ type2 = "absolute" THEN "relocatable"
             ELSE IF type1 = "relocatable" /\ type2 = "relocatable"
             THEN IF op = "-" THEN "absolute" ELSE "error"
             ELSE IF type1 = "external" \/ type2 = "external"
             THEN IF type1 = "absolute" /\ type2 = "external" THEN "external"
                  ELSE IF type1 = "external" /\ type2 = "absolute" THEN "external"
                  ELSE "error"
             ELSE IF type1 = "literal_addr" \/ type2 = "literal_addr"
             THEN IF type1 = "literal_addr" /\ type2 = "literal_addr"
                  THEN IF op = "-" THEN "absolute" ELSE "error"
                  ELSE IF type1 = "literal_addr" /\ type2 = "absolute" THEN "literal_addr"
                  ELSE IF type1 = "absolute" /\ type2 = "literal_addr" THEN "literal_addr"
                  ELSE "error"
             ELSE "error"
        ELSE IF op \in {"*", "/", "^"}
        THEN IF type1_eff = "absolute" /\ type2_eff = "absolute"
             THEN "absolute" ELSE "error"
        ELSE "error"

\* The value _apply_reloc_rules gives the result.
RelocValue(val1, op, val2) ==
    IF op = "+" THEN val1 + val2
    ELSE IF op = "-" THEN val1 - val2
    ELSE IF op = "*" THEN val1 * val2
    ELSE IF op = "/" THEN (IF val2 = 0 THEN 0 ELSE val1 \div val2)
    ELSE BitXor(val1, val2)

\* _apply_reloc_rules(val1, type1, op, val2, type2): the blocks of the
\* operands are not among its arguments.
ApplyRelocRules(first, op, second) ==
    IF RelocType(first.type, op, second.type) = "error"
    THEN ExpressionErrorRaised
    ELSE Returned(RelocValue(first.value, op, second.value),
                  RelocType(first.type, op, second.type), NONE)

\* `first op second` as _evaluate_simple_expression and _parse_term evaluate
\* it from the elements: the rules give value and type, and the block is
\* kept, taken from the second operand or dropped.
EvaluateSimpleExpression(first, op, second) ==
    LET r == ApplyRelocRules(first, op, second)
    IN  IF r.raised THEN r
        ELSE IF op \in {"*", "/"} \/ r.type # "relocatable"
        THEN r
        ELSE [r EXCEPT !.block =
                 IF first.block = NONE /\ second.block # NONE
                    /\ second.type = "relocatable"
                 THEN second.block ELSE first.block]

\* The base addresses the blocks of the operands have in Pass 2.
RelocBlockBases == [b \in {"X", "Y"} |-> IF b = "X" THEN 1 ELSE 3]

\* In Pass 2 _parse_single_element returns a symbol as an absolute value,
\* the base of its block added when it is relocatable in a named block.
ElementPass2(e) ==
    IF e.type = "literal_addr" \/ e.block = NONE THEN e
    ELSE IF e.type = "relocatable" /\ e.block # ABS_BLOCK
    THEN Element(e.value + RelocBlockBases[e.block], "absolute", NONE)
    ELSE Element(e.value, "absolute", NONE)

\* Largest value of an operand of the expressions evaluated.
MaxOperandValue == 2

\* The elements the expressions are made of: numbers, absolute symbols,
\* symbols relocatable in block X or Y, external symbols, literals.
RelocElements ==
    {Element(v, k[1], k[2]) :
        v \in 0..MaxOperandValue,
        k \in {<<"absolute", NONE>>, <<"absolute", ABS_BLOCK>>,
               <<"relocatable", "X">>, <<"relocatable", "Y">>,
               <<"external", ABS_BLOCK>>, <<"literal_addr", NONE>>}}

\* An expression `first op second` is about to be evaluated.
InitReloc ==
    /\ phase = "expression"
    /\ parsed_lines \in
           { <<[first |-> first, op |-> op, second |-> second]>> :
               first \in RelocElements, op \in {"+", "-", "*", "/", "^"},
               second \in RelocElements }
    /\ ctx = AssemblerInit
    /\ line_num = 1
    /\ hist1 = <<>>
    /\ hist2 = <<>>

\* evaluate_expression in Pass 1.
EvaluateInPass1 ==
    /\ phase = "expression"
    /\ hist1' = <<EvaluateSimpleExpression(parsed_lines[1].first, parsed_lines[1].op,
                                           parsed_lines[1].second)>>
    /\ phase' = "evaluated1"
    /\ UNCHANGED <<parsed_lines, ctx, line_num, hist2>>

\* evaluate_expression in Pass 2.
EvaluateInPass2 ==
    /\ phase = "evaluated1"
    /\ hist2' = <<EvaluateSimpleExpression(ElementPass2(parsed_lines[1].first),
                                           parsed_lines[1].op,
                                           ElementPass2(parsed_lines[1].second))>>
    /\ phase' = "evaluated2"
    /\ UNCHANGED <<parsed_lines, ctx, line_num, hist1>>

NextReloc == EvaluateInPass1 \/ EvaluateInPass2

SpecReloc == InitReloc /\ [][NextReloc]_vars

\* One relocatable value is subtracted from another.
RelocatableDifference ==
    /\ parsed_lines[1].op = "-"
    /\ parsed_lines[1].first.type = "relocatable"
    /\ parsed_lines[1].second.type = "relocatable"

\* C30: when one relocatable value is subtracted from another, the evaluator
\* returns an absolute value only if both operands belong to the same block,
\* and if their blocks differ it raises an error and returns no value.
C30_RelocatableDifferenceNeedsOneBlock ==
    (phase = "evaluated1" /\ RelocatableDifference) =>
        LET same_block == parsed_lines[1].first.block = parsed_lines[1].second.block
        IN  /\ (~hist1[1].raised /\ hist1[1].type = "absolute") => same_block
            /\ ~same_block => hist1[1].raised

\* ---------------------------------------------------- micro substitution
MAX_MICRO_DEPTH == 20

\* A text is a sequence of characters. The characters a micro name is made
\* of: [A-Za-z][A-Za-z0-9]{0,7} over the characters the texts use.
NameCharacters == {"A", "B", "X"}

\* The place of the next % after position i, 0 when there is none.
NextPercent(text, i) ==
    IF \E j \in (i + 1)..Len(text) : text[j] = "%"
    THEN CHOOSE j \in (i + 1)..Len(text) :
            text[j] = "%" /\ \A k \in (i + 1)..(j - 1) : text[k] # "%"
    ELSE 0

\* MICRO_REF_FIND_REGEX matches at position i: % name %.
MicroRefAt(text, i) ==
    /\ text[i] = "%"
    /\ LET j == NextPercent(text, i)
       IN  /\ j > i + 1
           /\ j - i - 1 <= 8
           /\ \A k \in (i + 1)..(j - 1) : text[k] \in NameCharacters

\* MICRO_REF_FIND_REGEX.search(text, pos): the first match at or after the
\* position, 0 for None.
SearchMicroRef(text, pos) ==
    IF \E i \in pos..Len(text) : MicroRefAt(text, i)
    THEN CHOOSE i \in pos..Len(text) :
            MicroRefAt(text, i) /\ \A k \in pos..(i - 1) : ~MicroRefAt(text, k)
    ELSE 0

\* match.group(1) and the position of the closing %.
MatchEnd(text, start) == NextPercent(text, start)

MicroName(text, start) == SubSeq(text, start + 1, MatchEnd(text, start) - 1)

\* A micro table: micro_definitions, and the symbols whose value is a
\* character string.
MicroTable(micro_definitions, char_symbols) ==
    [micro_definitions |-> micro_definitions, char_symbols |-> char_symbols]

\* The reference names something that has a value.
MicroHasValue(table, micro_name) ==
    \/ micro_name \in DOMAIN table.micro_definitions
    \/ micro_name \in DOMAIN table.char_symbols

\* micro_definitions.get(micro_name), and the symbol's value otherwise.
MicroValue(table, micro_name) ==
    IF micro_name \in DOMAIN table.micro_definitions
    THEN table.micro_definitions[micro_name]
    ELSE table.char_symbols[micro_name]

\* The while loop of substitute_micros from a position on: the place of the
\* first reference that has a value, 0 when the loop ends without one.
RECURSIVE FirstValuedRef(_, _, _)
FirstValuedRef(table, text, pos) ==
    LET start == SearchMicroRef(text, pos)
    IN  IF start = 0 THEN 0
        ELSE IF MicroHasValue(table, MicroName(text, start)) THEN start
        ELSE FirstValuedRef(table, text, MatchEnd(text, start) + 1)

\* text[:start] + micro_value + text[end:]
SubstituteAt(table, text, start) ==
    SubSeq(text, 1, start - 1) \o MicroValue(table, MicroName(text, start))
        \o SubSeq(text, MatchEnd(text, start) + 1, Len(text))

\* `if depth > MAX_MICRO_DEPTH`
DepthNeverExceeded(depth) == FALSE

DepthExceeded(depth) == depth > MAX_MICRO_DEPTH

\* The texts of the source and of the micro bodies.
MicroTexts ==
    {<<>>, <<"X">>, <<"%", "A", "%">>, <<"%", "B", "%">>,
     <<"%", "X", "%", "%", "A", "%">>, <<"X", "%", "A", "%", "%", "B", "%">>}

\* The micro tables: A and B are micros or not, B may be a character symbol.
MicroTables ==
    {MicroTable(m, s) :
        m \in UNION {[names -> MicroTexts] : names \in SUBSET {<<"A">>, <<"B">>}},
        s \in UNION {[names -> {<<"X">>, <<"%", "A", "%">>}] : names \in SUBSET {<<"B">>}}}

\* substitute_micros(text, assembler, line_num) is called on line 1, which
\* has an error already or has none.
InitMicro ==
    /\ phase = "substituting"
    /\ parsed_lines \in {<<[text |-> text, table |-> table]>> :
                            text \in MicroTexts, table \in MicroTables}
    /\ ctx \in {AssemblerInit, AddError(AssemblerInit, 1)}
    /\ line_num = 1
    /\ hist1 \in {<<parsed_lines[1].text>>}
    /\ hist2 = <<>>

\* The depth of the call of substitute_micros that is running, and its text.
MicroDepth == Len(hist1) - 1

MicroText == hist1[Len(hist1)]

\* The call finds the depth beyond the cap: it reports the error unless the
\* line has one, and returns its text.
SubstituteMicrosAtCap ==
    /\ phase = "substituting"
    /\ DepthExceeded(MicroDepth)
    /\ ctx' = AddErrorOnce(ctx, line_num)
    /\ hist2' = <<MicroText>>
    /\ phase' = "returned"
    /\ UNCHANGED <<parsed_lines, line_num, hist1>>

\* The call substitutes the first reference that has a value and calls
\* substitute_micros on the result, one level deeper.
SubstituteMicrosRecurse ==
    /\ phase = "substituting"
    /\ ~DepthExceeded(MicroDepth)
    /\ LET table == parsed_lines[1].table
           start == FirstValuedRef(table, MicroText, 1)
       IN  /\ start # 0
           /\ ctx' = IF SearchMicroRef(MicroText, 1) # start
                     THEN AddErrorOnce(ctx, line_num) ELSE ctx
           /\ hist1' = Append(hist1, SubstituteAt(table, MicroText, start))
    /\ UNCHANGED <<phase, parsed_lines, line_num, hist2>>

\* The call finds no reference that has a value: it returns its text.
SubstituteMicrosReturn ==
    /\ phase = "substituting"
    /\ ~DepthExceeded(MicroDepth)
    /\ FirstValuedRef(parsed_lines[1].table, MicroText, 1) = 0
    /\ ctx' = IF SearchMicroRef(MicroText, 1) # 0
              THEN AddErrorOnce(ctx, line_num) ELSE ctx
    /\ hist2' = <<MicroText>>
    /\ phase' = "returned"
    /\ UNCHANGED <<parsed_lines, line_num, hist1>>

NextMicro == SubstituteMicrosAtCap \/ SubstituteMicrosRecurse \/ SubstituteMicrosReturn

SpecMicro == InitMicro /\ [][NextMicro]_vars

\* No call of substitute_micros runs deeper than one level beyond the cap,
\* so that no substitution is made at a depth beyond the cap.
MicroDepthBounded == MicroDepth <= MAX_MICRO_DEPTH + 1

\* Every call either returns or hands the text to a call one level deeper.
MicroCallProgresses == phase' = "returned" \/ MicroDepth' = MicroDepth + 1

\* The running call is the one that finds the depth beyond the cap.
AtMicroCap == phase = "substituting" /\ MicroDepth > MAX_MICRO_DEPTH

\* The call returns the text it was given, the text substituted so far.
ReturnsTextSoFar == phase' = "returned" /\ hist2' = <<MicroText>>

\* C31 as stated: micro substitution terminates for every micro table, also
\* a self-referential or mutually recursive one, the nesting never goes
\* beyond the cap of 20, and the call that reaches the cap adds an error to
\* the error list and returns the text substituted so far.
C31_CapAlwaysAddsAnError ==
    /\ []MicroDepthBounded
    /\ [][/\ MicroCallProgresses
          /\ AtMicroCap => /\ ReturnsTextSoFar
                           /\ Len(ctx'.errors) = Len(ctx.errors) + 1]_vars

\* C31: micro substitution terminates for every micro table, also a
\* self-referential or mutually recursive one: every call returns or calls
\* one level deeper, no call runs beyond depth 21 and no substitution is made
\* beyond depth 20. The call that reaches the cap returns the text
\* substituted so far and leaves the line with an error: it adds the error
\* if the line has none yet, and adds nothing if the line has one.
C31_SubstitutionStopsAtTheCap ==
    /\ []MicroDepthBounded
    /\ [][/\ MicroCallProgresses
          /\ AtMicroCap =>
                /\ ReturnsTextSoFar
                /\ HasErrorOnLine(ctx', line_num)
                /\ Len(ctx'.errors) = Len(ctx.errors)
                                      + (IF HasErrorOnLine(ctx, line_num) THEN 0 ELSE 1)]_vars

\* Two micros that name each other were substituted up to the cap, and the
\* call returned with an error on the line.
C31_MutualRecursionReachedTheCap ==
    /\ phase = "returned"
    /\ MicroDepth = MAX_MICRO_DEPTH + 1
    /\ parsed_lines[1].text = <<"%", "A", "%">>
    /\ DOMAIN parsed_lines[1].table.micro_definitions = {<<"A">>, <<"B">>}
    /\ parsed_lines[1].table.micro_definitions[<<"A">>] = <<"%", "B", "%">>
    /\ parsed_lines[1].table.micro_definitions[<<"B">>] = <<"%", "A", "%">>
    /\ hist2 = <<<<"%", "B", "%">>>>
    /\ HasErrorOnLine(ctx, line_num)

\* The line resolved a pending force: it executed it or cancelled it.
ResolvesPendingForce(h) == h.step \in {"forced", "negated", "equ_star"}

\* C32: for every source line, deferred_force_pending has the same value at
\* entry to the line in Pass 2 as it had at entry to the line in Pass 1, and
\* a pending force is resolved at the same line in both passes.
C32_PendingFlagAtEntryEqualInBothPasses ==
    \A i \in 1..Len(hist2) :
        /\ hist2[i].entry_pending = hist1[i].entry_pending
        /\ ResolvesPendingForce(hist2[i]) = ResolvesPendingForce(hist1[i])

\* The boolean an IF directive pushed: the top of the stack it left.
PushedByIf(h) == h.cond_stack_after[Len(h.cond_stack_after)]

\* C33: every IF directive yields the same boolean in Pass 2 as in Pass 1,
\* the conditional stack after each source line is the same in the two
\* passes, and the same statements are skipped in both.
C33_ConditionalsAgreeInBothPasses ==
    \A i \in 1..Len(hist2) :
        /\ IsIfDirective(parsed_lines[i].line)
               => PushedByIf(hist2[i]) = PushedByIf(hist1[i])
        /\ hist2[i].cond_stack_after = hist1[i].cond_stack_after
        /\ ~IsConditionalDirective(parsed_lines[i].line)
               => hist2[i].skipped_by_conditional = hist1[i].skipped_by_conditional

\* The step processes, in either pass, a statement that is skipped because
\* the top of the conditional stack is false.
SkippedLineStep ==
    /\ phase \in {"pass1", "pass2"}
    /\ line_num' = line_num + 1
    /\ ctx'.ob.skipped_by_conditional
    /\ ~IsConditionalDirective(parsed_lines'[line_num'].line)

\* The step leaves the symbols, the counters, the block sizes and the
\* literal pool as they were.
NoEffectOnAssembly ==
    /\ ctx'.tab.symbols = ctx.tab.symbols
    /\ ctx'.st.location_counter = ctx.st.location_counter
    /\ ctx'.st.position_counter = ctx.st.position_counter
    /\ ctx'.st.block_lcs = ctx.st.block_lcs
    /\ ctx'.tab.literal_list = ctx.tab.literal_list

\* C34: a line that is skipped because the top of the conditional stack is
\* false has no effect in either pass: it defines no symbol and changes
\* neither LC, PC, the block sizes nor the literal pool.
C34_SkippedLineHasNoEffect ==
    [][SkippedLineStep => NoEffectOnAssembly]_vars

\* ------------------------------------------------------------------ C35
\* C35: the special labels '+' and '-' never create or modify a symbol-table
\* entry, on any kind of line: no entry of the symbol table is ever named
\* '+' or '-'.
C35_SpecialLabelsDefineNoSymbol ==
    \A name \in DOMAIN ctx.tab.symbols : name \notin {"+", NEGATING_LABEL}

\* ------------------------------------------------------------------ C36
\* A step of Pass 2: a line of Pass 2, or the end of its line loop.
Pass2Step == phase = "pass2" /\ phase' \in {"pass2", "done"}

\* The stored value, type and block of every symbol.
SymbolValues(tab) ==
    [n \in DOMAIN tab.symbols |->
        <<tab.symbols[n].value, tab.symbols[n].attrs.type,
          tab.symbols[n].attrs.block>>]

\* C36: Pass 2 never changes the literal pool or any symbol's stored value,
\* type or block: no step of Pass 2 changes the literal list, the literal
\* addresses or the value, type or block of a symbol.
C36_Pass2LeavesPoolAndSymbolsAlone ==
    [][Pass2Step =>
          /\ ctx'.tab.literal_list = ctx.tab.literal_list
          /\ ctx'.tab.literal_addr_map = ctx.tab.literal_addr_map
          /\ SymbolValues(ctx'.tab) = SymbolValues(ctx.tab)]_vars

\* ------------------------------------------------------------------ C37
\* The machine addresses at which the lines of Pass 2 assembled in a block,
\* outside a LOC range, have placed their words.
AddressesOfBlock(block) ==
    {hist2[i].first_parcel_address :
        i \in {j \in 1..Len(hist2) :
                  /\ hist2[j].processed
                  /\ hist2[j].emitted_bits > 0
                  /\ ~hist2[j].entry_loc_abs
                  /\ hist2[j].entry_block = block}}

\* The machine addresses of the literal block.
LiteralBlockAddresses ==
    {ctx.tab.literal_addr_map[v] : v \in DOMAIN ctx.tab.literal_addr_map}

\* The blocks in which Pass 2 has assembled a line.
BlocksOfPass2 == {hist2[i].entry_block : i \in 1..Len(hist2)}

\* C37: in the final image the literal block, the words of the *ABS* block
\* and the words of every named block occupy pairwise disjoint machine
\* addresses.
C37_BlocksOccupyDisjointAddresses ==
    phase = "done" =>
        \A b1 \in BlocksOfPass2 :
            /\ AddressesOfBlock(b1) \cap LiteralBlockAddresses = {}
            /\ \A b2 \in BlocksOfPass2 \ {b1} :
                   AddressesOfBlock(b1) \cap AddressesOfBlock(b2) = {}

\* ------------------------------------------------------------------ C38
\* The accumulated size of the current block.
CurrentBlockSize ==
    IF ctx.st.current_block \in DOMAIN ctx.st.block_lcs
    THEN ctx.st.block_lcs[ctx.st.current_block] ELSE 0

\* C38: in Pass 1, while no LOC is in effect, the location counter equals
\* the accumulated size of the current block after every statement, in
\* particular after a USE, ABS or REL that re-enters a block used earlier.
C38_CounterIsSizeOfCurrentBlock ==
    (phase = "pass1" /\ ~ctx.st.lc_is_absolute_due_to_loc) =>
        ctx.st.location_counter = CurrentBlockSize

\* ------------------------------------------------------------------ C39
\* A line of Pass 1 has called symbol_table.define and the call has
\* returned failure.
DefineCallFailed ==
    /\ phase = "pass1" /\ line_num' = line_num + 1
    /\ ctx'.ob.define_called /\ ctx'.ob.define_failed

\* C39: a define call that returns failure leaves the symbol table, its
\* entries and its program-name record, exactly as it was before the call,
\* for every rejection cause including a second IDENT with another name.
C39_FailedDefineLeavesTableAlone ==
    [][DefineCallFailed =>
          /\ ctx'.tab.symbols = ctx.tab.symbols
          /\ ctx'.tab.program_name_attributes = ctx.tab.program_name_attributes]_vars

\* ------------------------------------------------------------------ C40
\* C40: in both passes, after any sequence of IF*, ELSE and ENDIF
\* directives, balanced or not, the conditional stack is non-empty, its
\* bottom element is true, and every element above a false element is false.
C40_StackIsTrueThenFalse ==
    LET stack == ctx.st.conditional_stack
    IN  /\ Len(stack) >= 1
        /\ stack[1]
        /\ \A i \in 1..Len(stack) : \A j \in (i + 1)..Len(stack) :
               ~stack[i] => ~stack[j]

\* Pass 2 has processed an ELSE two levels deep inside a false branch that
\* the program never closes.
C40_ElseInsideFalseBranchInPass2 ==
    /\ phase = "pass2"
    /\ line_num >= 1 /\ line_num = Len(hist2)
    /\ parsed_lines[line_num].line.opcode = "ELSE"
    /\ hist2[line_num].cond_handled
    /\ Len(ctx.st.conditional_stack) = 3
    /\ ~ctx.st.conditional_stack[2]

====
